---- MODULE Spec2Model ----
(***************************************************************************)
(* Model of the Monolith task runtime: the cooperative priority scheduler  *)
(* (monolith/scheduler.py), the worker loop (monolith/worker.py), the      *)
(* supervisor (monolith/supervisor.py) and the queues between them         *)
(* (monolith/ipc.py).                                                      *)
(*                                                                         *)
(* Spec        one Scheduler driven directly through its public API        *)
(*             (enqueue_from_payload, run_once), as tests/test_scheduler   *)
(*             drives it.                                                  *)
(* SpecSystem  a Supervisor with its worker processes, each running        *)
(*             worker_main over the shared task queue.                     *)
(* SpecSupervisor, SpecWith, SpecWorkers                                   *)
(*             the Supervisor methods, the with statement and the worker   *)
(*             processes, with steps and sends that do not fail.           *)
(* SpecPool, SpecMemory                                                    *)
(*             a MemoryPool (monolith/memory.py) used directly, and by     *)
(*             the step hook of a scheduler.                               *)
(* SpecIpc     one queue used through send, recv and collect_results.      *)
(* SpecMetrics threads updating one Counter and one Gauge                  *)
(*             (monolith/metrics.py).                                      *)
(* SpecSteps   one Scheduler whose tasks need several steps.               *)
(* SpecQuantum one Scheduler whose quanta take a measured time.            *)
(* SpecLoop    worker_main receiving messages of every type.               *)
(* SpecProgress, SpecShutdown                                              *)
(*             worker processes under weak fairness: parked tasks are      *)
(*             finished, and a stop() whose sends succeed ends every worker.*)
(***************************************************************************)
EXTENDS Integers, Sequences, FiniteSets, TLC

\* ------------------------------------------------------------------------
\* Bounds of the model
\* ------------------------------------------------------------------------
\* number of tasks ever created (enqueue_from_payload calls / submissions)
MaxTasks == 2
\* the clock (time.time()) takes the values 0..MaxTime
MaxTime == 1
\* number of worker processes of the supervisor (config.num_workers)
NumWorkers == 2
\* number of stop() calls made on a started supervisor
MaxStops == 1
\* number of submit_task() calls made on a started supervisor
MaxSubmits == 1
\* capacity of a memory pool (max_bytes); sizes, offsets and lengths of the
\* pool calls range a little beyond it on both sides
MaxBytes == 2
\* capacity of the queue used directly (maxsize)
MaxQueue == 2
\* number of messages ever put on the queue used directly
MaxSent == 3
\* number of threads that update one Counter and one Gauge
NumThreads == 2
\* number of inc, dec and set calls the threads make in all
MaxCalls == 3
\* the elapsed time of a quantum takes the values 0..MaxElapsed, in ms
MaxElapsed == 2
\* number of overruns counted before the timed scheduler is left alone
MaxOverruns == 2

\* ------------------------------------------------------------------------
\* Data model (monolith/models.py, monolith/ipc.py)
\* ------------------------------------------------------------------------
TaskState == {"PENDING", "RUNNING", "WAITING", "DONE", "FAILED", "CANCELLED"}

MessageType == {"TASK_SUBMIT", "TASK_RESULT", "WORKER_STATUS", "CONTROL"}

\* the meta blocks of the payloads that are submitted: every combination of
\* two priorities with a deadline that is absent (<<>> is None) or set (<<d>>),
\* under the default owner or another one
Metas ==
    {[owner |-> "system", priority |-> 0, deadline |-> <<>>],
     [owner |-> "tenant", priority |-> 1, deadline |-> <<>>],
     [owner |-> "tenant", priority |-> 0, deadline |-> <<0>>],
     [owner |-> "system", priority |-> 1, deadline |-> <<0>>]}

\* the meta blocks submitted through the supervisor: the default one, and one
\* of another owner with a priority and a deadline
SupervisorMetas ==
    {[owner |-> "system", priority |-> 0, deadline |-> <<>>],
     [owner |-> "tenant", priority |-> 1, deadline |-> <<0>>]}

Workers == 1..NumWorkers

TaskIds == 1..MaxTasks

\* Task(meta=TaskMetadata(...), payload=payload): state PENDING, no error
NewTask(id, owner, priority, deadline, now) ==
    [id |-> id, owner |-> owner, priority |-> priority, created_at |-> now,
     deadline |-> deadline, state |-> "PENDING", last_error |-> "None"]

Message(type, payload) == [type |-> type, payload |-> payload]

VARIABLES
    clock,          \* time.time()
    tasks,          \* tasks[w]: Scheduler._tasks of the scheduler of process w
    metrics,        \* metrics[w]: the METRICS registry of process w
    result_queue,   \* the result queue, a FIFO of Message
    emitted,        \* every payload ever put on the result queue, in order
    next_id,        \* number of Task objects created so far, plus one
    last,           \* the most recent scheduler call: its input and outcome
    started,        \* Supervisor._started
    sup_pc,         \* "idle", or "joining" while stop() waits for the workers
    workers,        \* Supervisor._workers, as the set of their indices
    proc,           \* proc[w]: what became of worker process w
    task_queue,     \* the task queue, a FIFO of Message
    stops,          \* number of stop() calls made on a started supervisor
    memory,         \* a MemoryPool: Scheduler._memory, or a pool used directly
    lastp,          \* the most recent pool call: its input and outcome
    sup_submitted,  \* METRICS.tasks_submitted of the supervisor's process
    lasts,          \* the most recent Supervisor method call and its outcome
    with_pc,        \* where a "with Supervisor(...) as sup:" statement stands
    queue,          \* a queue used directly through ipc.send and ipc.recv
    sent_log,       \* the messages that send has put on queue, in order
    recv_log,       \* the messages that recv has taken from queue, in order
    lasti,          \* the most recent call on queue: its input and outcome
    counter_m,      \* a Counter: its _value and the holder of its _lock
    gauge_m,        \* a Gauge: its _value and the holder of its _lock
    threads,        \* threads[t]: the call thread t is in, and how far
    applied,        \* the updates done so far, applied one after the other
    overruns,       \* METRICS.scheduler_quantum_overruns of the process of scheduler 1
    lastq,          \* the elapsed ms of the most recent quantum, and overruns before it
    lastw           \* the most recent turn of a worker loop: what recv gave, and
                    \* the scheduler of that worker as the turn found it

schedvars == <<tasks, metrics, result_queue, emitted, last>>

supvars == <<started, sup_pc, workers, proc, task_queue, stops>>

memvars == <<memory, lastp>>

apivars == <<sup_submitted, lasts, with_pc>>

ipcvars == <<queue, sent_log, recv_log, lasti>>

thrvars == <<counter_m, gauge_m, threads, applied>>

quantumvars == <<overruns, lastq>>

libvars == <<ipcvars, thrvars, quantumvars, lastw>>

vars == <<clock, next_id, schedvars, supvars, memvars, apivars, libvars>>

\* ------------------------------------------------------------------------
\* Sequence helpers
\* ------------------------------------------------------------------------
\* list.remove(x): drops the first element equal to x
Remove(s, x) ==
    LET hits == {i \in 1..Len(s) : s[i] = x}
        first == CHOOSE i \in hits : \A j \in hits : i <= j
    IN IF hits = {} THEN s
       ELSE [k \in 1..(Len(s) - 1) |-> IF k < first THEN s[k] ELSE s[k + 1]]

\* position in the list of the Task object with this id, 0 when absent
IndexOf(s, id) ==
    LET hits == {i \in 1..Len(s) : s[i].id = id}
    IN IF hits = {} THEN 0 ELSE CHOOSE i \in hits : TRUE

\* number of elements of s that satisfy Test
Count(s, Test(_)) == Cardinality({i \in 1..Len(s) : Test(s[i])})

\* ------------------------------------------------------------------------
\* Scheduler (monolith/scheduler.py)
\* ------------------------------------------------------------------------
\* ReadyTasks without the filter on the state: every listed task is eligible
ReadyTasksAnyState(ts) == SelectSeq(ts, LAMBDA t : t.state \in TaskState)

\* ReadyTasks that passes over the WAITING tasks
ReadyTasksPendingOnly(ts) == SelectSeq(ts, LAMBDA t : t.state \in {"PENDING"})

\* ready_tasks of run_once: the PENDING and WAITING tasks, in list order
ReadyTasks(ts) == SelectSeq(ts, LAMBDA t : t.state \in {"PENDING", "WAITING"})

\* SelectKey with the sign of created_at lost: (priority, created_at)
SelectKeyLatestFirst(t) == <<t.priority, t.created_at>>

\* the selection key of run_once: (priority, -created_at)
SelectKey(t) == <<t.priority, 0 - t.created_at>>

\* KeyGreater as a >= b: a later item with an equal key replaces the maximum
KeyGreaterOrEqual(a, b) == a[1] > b[1] \/ (a[1] = b[1] /\ a[2] >= b[2])

\* Python's tuple comparison a > b on two such keys
KeyGreater(a, b) == a[1] > b[1] \/ (a[1] = b[1] /\ a[2] > b[2])

\* max(iterable, key=...): the running maximum is replaced only by an item
\* whose key is strictly greater, so the first of several maxima is kept
RECURSIVE PyMaxFrom(_, _, _)
PyMaxFrom(s, i, best) ==
    IF i > Len(s) THEN best
    ELSE PyMaxFrom(s, i + 1,
                   IF KeyGreater(SelectKey(s[i]), SelectKey(best)) THEN s[i] ELSE best)

PyMax(s) == PyMaxFrom(s, 2, s[1])

\* DeadlineExceeded with >= for >: a task is cancelled at its deadline already
DeadlineExceededInclusive(task, now) == task.deadline # <<>> /\ now >= task.deadline[1]

\* run_once's deadline check on the selected task
DeadlineExceeded(task, now) == task.deadline # <<>> /\ now > task.deadline[1]

\* _is_task_complete: by default complete unless the hook parked the task
IsTaskComplete(task) == task.state \notin {"WAITING"}

\* the TASK_RESULT message _emit_result builds from the task as it is now
ResultMessage(task) ==
    Message("TASK_RESULT",
            [id |-> task.id, owner |-> task.owner, state |-> task.state,
             last_error |-> task.last_error])

\* the selected task with its state field assigned
SetState(ts, i, st) == [ts EXCEPT ![i].state = st]

\* What one call of a scheduler method did:
\*   tasks    the task list when the call ends
\*   out      the messages the call put on the result queue, in order
\*   raised   "None", or the exception that left the call
\*   sel      id of the selected task, 0 when none was selected
\*   stepped  whether _execute_step was invoked
\*   trace    the states assigned to the selected task, in order
\*   completed, failed, cancelled   increments of the three counters
\*   gauge    whether worker_queue_depth was set from len(_tasks)
\*   sends    the number of ipc.send calls made
Outcome(ts, out, raised, sel, stepped, trace, c, f, x, gauge, sends) ==
    [tasks |-> ts, out |-> out, raised |-> raised, sel |-> sel,
     stepped |-> stepped, trace |-> trace,
     completed |-> c, failed |-> f, cancelled |-> x, gauge |-> gauge,
     sends |-> sends]

\* QuantumExcept without the final self._tasks.remove(task)
QuantumExceptKeepsTask(ts, i, msg, trace, c, sends, sendOk) ==
    LET ts1 == [ts EXCEPT ![i].state = "FAILED", ![i].last_error = msg]
        tr == Append(trace, "FAILED")
    IN IF sendOk
       THEN Outcome(ts1, <<ResultMessage(ts1[i])>>,
                    "None", ts[i].id, TRUE, tr, c, 1, 0, TRUE, sends + 1)
       ELSE Outcome(ts1, <<>>, "IPCError", ts[i].id, TRUE, tr, c, 1, 0, TRUE,
                    sends + 1)

\* the except branch of _run_task_quantum: FAILED, last_error, tasks_failed,
\* then _emit_result and remove; ts[i] is RUNNING, WAITING or DONE on entry
QuantumExcept(ts, i, msg, trace, c, sends, sendOk) ==
    LET ts1 == [ts EXCEPT ![i].state = "FAILED", ![i].last_error = msg]
        tr == Append(trace, "FAILED")
    IN IF sendOk
       THEN Outcome(Remove(ts1, ts1[i]), <<ResultMessage(ts1[i])>>,
                    "None", ts[i].id, TRUE, tr, c, 1, 0, TRUE, sends + 1)
       ELSE Outcome(ts1, <<>>, "IPCError", ts[i].id, TRUE, tr, c, 1, 0, TRUE,
                    sends + 1)

\* RunTaskQuantum with self._tasks.remove(task) repeated after the DONE
\* result was sent: the second remove raises ValueError inside the try, and
\* the except branch marks the task FAILED and emits again
RunTaskQuantumRemovesTwice(ts, i, hook, send1, send2) ==
    LET run == SetState(ts, i, "RUNNING")
        done == SetState(run, i, "DONE")
        failed == [done EXCEPT ![i].state = "FAILED", ![i].last_error = "not in list"]
    IN IF hook = "raise"
       THEN QuantumExcept(run, i, "simulated failure", <<"RUNNING">>, 0, 0, send1)
       ELSE IF hook = "wait"
       THEN Outcome(SetState(run, i, "WAITING"), <<>>, "None", ts[i].id, TRUE,
                    <<"RUNNING", "WAITING">>, 0, 0, 0, TRUE, 0)
       ELSE IF send1
       THEN Outcome(Remove(done, done[i]),
                    <<ResultMessage(done[i]), ResultMessage(failed[i])>>, "None",
                    ts[i].id, TRUE, <<"RUNNING", "DONE", "FAILED">>, 1, 1, 0, TRUE, 2)
       ELSE QuantumExcept(done, i, "send failed", <<"RUNNING", "DONE">>, 1, 1, send2)

\* self._is_task_complete(task) as _run_task_quantum calls it after a step
\* that returned: the default predicate, or, behind the hook "unfinished",
\* the override of a multi-step interpreter that answers False
IsComplete(task, hook) == hook # "unfinished" /\ IsTaskComplete(task)

\* _run_task_quantum(task) for the task at position i. hook is what
\* _execute_step does; send1 and send2 tell whether the first and the second
\* ipc.send of the call succeed.
RunTaskQuantum(ts, i, hook, send1, send2) ==
    LET run == SetState(ts, i, "RUNNING")
    IN IF hook = "raise"
       THEN QuantumExcept(run, i, "simulated failure", <<"RUNNING">>, 0, 0, send1)
       ELSE LET stepd == IF hook = "wait" THEN SetState(run, i, "WAITING") ELSE run
                tr == IF hook = "wait" THEN <<"RUNNING", "WAITING">> ELSE <<"RUNNING">>
            IN IF ~IsComplete(stepd[i], hook)
               THEN Outcome(stepd, <<>>, "None", ts[i].id, TRUE, tr, 0, 0, 0, TRUE, 0)
               ELSE LET done == SetState(stepd, i, "DONE")
                    IN IF send1
                       THEN Outcome(Remove(done, done[i]), <<ResultMessage(done[i])>>,
                                    "None", ts[i].id, TRUE, Append(tr, "DONE"),
                                    1, 0, 0, TRUE, 1)
                       ELSE QuantumExcept(done, i, "send failed",
                                          Append(tr, "DONE"), 1, 1, send2)

\* CancelTask with _emit_result called before the state is assigned
CancelTaskEmitsFirst(ts, i, send1) ==
    LET ts1 == SetState(ts, i, "CANCELLED")
    IN IF send1
       THEN Outcome(Remove(ts1, ts1[i]), <<ResultMessage(ts[i])>>, "None",
                    ts[i].id, FALSE, <<"CANCELLED">>, 0, 0, 1, TRUE, 1)
       ELSE Outcome(ts, <<>>, "IPCError", ts[i].id, FALSE, <<>>,
                    0, 0, 1, FALSE, 1)

\* the deadline branch of run_once for the task at position i
CancelTask(ts, i, send1) ==
    LET ts1 == SetState(ts, i, "CANCELLED")
    IN IF send1
       THEN Outcome(Remove(ts1, ts1[i]), <<ResultMessage(ts1[i])>>, "None",
                    ts[i].id, FALSE, <<"CANCELLED">>, 0, 0, 1, TRUE, 1)
       ELSE Outcome(ts1, <<>>, "IPCError", ts[i].id, FALSE, <<"CANCELLED">>,
                    0, 0, 1, FALSE, 1)

\* Scheduler.run_once() on task list ts at time now
RunOnce(ts, now, hook, send1, send2) ==
    LET ready == ReadyTasks(ts)
    IN IF ready = <<>>
       THEN Outcome(ts, <<>>, "None", 0, FALSE, <<>>, 0, 0, 0, FALSE, 0)
       ELSE LET task == PyMax(ready)
                i == IndexOf(ts, task.id)
            IN IF DeadlineExceeded(task, now)
               THEN CancelTask(ts, i, send1)
               ELSE RunTaskQuantum(ts, i, hook, send1, send2)

\* Scheduler.enqueue_from_payload(payload): the new Task is appended
EnqueueFromPayload(ts, id, owner, priority, deadline, now) ==
    Append(ts, NewTask(id, owner, priority, deadline, now))

\* The inputs of one run_once call: what the execute-step hook does with the
\* task (it returns, it parks the task in WAITING and returns, or it raises),
\* and whether the first and the second ipc.send succeed. A second send happens only after a first
\* one failed behind a completed step, and a parked task sends nothing, so
\* the other combinations repeat these.
RunInputs ==
    {<<"complete", TRUE, TRUE>>, <<"complete", FALSE, TRUE>>,
     <<"complete", FALSE, FALSE>>, <<"raise", TRUE, TRUE>>,
     <<"raise", FALSE, TRUE>>, <<"wait", TRUE, TRUE>>}

\* ------------------------------------------------------------------------
\* MemoryPool (monolith/memory.py)
\* ------------------------------------------------------------------------
\* Region identifiers and task identifiers are strings in the code; here both
\* are small numbers. A dict is a function on the set of its keys.
RegionIds == {1, 2}

Requesters == {1, 2}

\* the byte values written; a fresh bytearray holds zeros
Bytes == {0, 1}

\* the dict with no key
EmptyDict == [k \in {} |-> k]

\* d[k] = v
DictSet(d, k, v) == [x \in DOMAIN d \cup {k} |-> IF x = k THEN v ELSE d[x]]

\* del d[k]
DictDel(d, k) == [x \in DOMAIN d \ {k} |-> d[x]]

Min(a, b) == IF a <= b THEN a ELSE b

Max(a, b) == IF a >= b THEN a ELSE b

\* Region(id=..., owner_task_id=..., size=...): read_only defaults to False
Region(id, owner_task_id, size) ==
    [id |-> id, owner_task_id |-> owner_task_id, size |-> size, read_only |-> FALSE]

\* MemoryPool(max_bytes)
MemoryPool(max_bytes) ==
    [max_bytes |-> max_bytes, used_bytes |-> 0, regions |-> EmptyDict,
     storage |-> EmptyDict]

\* bytearray(size) for size >= 0
ByteArray(size) == [k \in 1..size |-> 0]

\* buf[lo:hi] for 0 <= lo: Python clamps both ends to the length
Slice(buf, lo, hi) ==
    SubSeq(buf, Min(lo, Len(buf)) + 1, Min(hi, Len(buf)))

\* SliceAssign with the offset lost: the data always lands at the start
SliceAssignAtStart(buf, lo, hi, data) ==
    data \o SubSeq(buf, Min(hi - lo, Len(buf)) + 1, Len(buf))

\* buf[lo:hi] = data for 0 <= lo: the slice, clamped to the length, is
\* replaced by data, whatever the length of data
SliceAssign(buf, lo, hi, data) ==
    LET a == Min(lo, Len(buf))
        b == Max(a, Min(hi, Len(buf)))
    IN SubSeq(buf, 1, a) \o data \o SubSeq(buf, b + 1, Len(buf))

\* What one call of a pool method did: the pool when the call ends, "None"
\* or the exception raised with its message, and the value returned
PoolOutcome(pool, raised, msg, ret) ==
    [pool |-> pool, raised |-> raised, msg |-> msg, ret |-> ret]

PoolRaise(pool, msg) == PoolOutcome(pool, "MemoryErrorLogical", msg, <<>>)

\* _require_region finds the region
KnownRegion(pool, region_id) == region_id \in DOMAIN pool.regions

\* OutOfBounds with >= for >: an access that ends at the region's end fails
OutOfBoundsAtEnd(region, offset, length) ==
    offset < 0 \/ length < 0 \/ offset + length >= region.size

\* the condition under which _ensure_bounds raises
OutOfBounds(region, offset, length) ==
    offset < 0 \/ length < 0 \/ offset + length > region.size

\* OwnerMismatch that never finds a mismatch
OwnerMismatchNever(region, requester_task_id) ==
    region.owner_task_id # region.owner_task_id

\* the condition under which _ensure_owner raises
OwnerMismatch(region, requester_task_id) ==
    region.owner_task_id # requester_task_id

\* Alloc with >= for > in the capacity check: the pool can never be filled
AllocBelowCapacity(pool, region_id, owner_task_id, size) ==
    IF size <= 0 THEN PoolRaise(pool, "size must be > 0")
    ELSE IF pool.used_bytes + size >= pool.max_bytes
    THEN PoolRaise(pool, "out of logical memory")
    ELSE IF region_id \in DOMAIN pool.regions
    THEN PoolRaise(pool, "already exists")
    ELSE LET region == Region(region_id, owner_task_id, size)
         IN PoolOutcome([pool EXCEPT
                            !.regions = DictSet(@, region_id, region),
                            !.storage = DictSet(@, region_id, ByteArray(size)),
                            !.used_bytes = @ + size],
                        "None", "", region)

\* MemoryPool.alloc(region_id, owner_task_id, size)
Alloc(pool, region_id, owner_task_id, size) ==
    IF size <= 0 THEN PoolRaise(pool, "size must be > 0")
    ELSE IF pool.used_bytes + size > pool.max_bytes
    THEN PoolRaise(pool, "out of logical memory")
    ELSE IF region_id \in DOMAIN pool.regions
    THEN PoolRaise(pool, "already exists")
    ELSE LET region == Region(region_id, owner_task_id, size)
         IN PoolOutcome([pool EXCEPT
                            !.regions = DictSet(@, region_id, region),
                            !.storage = DictSet(@, region_id, ByteArray(size)),
                            !.used_bytes = @ + size],
                        "None", "", region)

\* Free without the update of _used_bytes
FreeKeepsUsedBytes(pool, region_id, requester_task_id) ==
    IF ~KnownRegion(pool, region_id) THEN PoolRaise(pool, "unknown region")
    ELSE IF OwnerMismatch(pool.regions[region_id], requester_task_id)
    THEN PoolRaise(pool, "owner mismatch")
    ELSE PoolOutcome([pool EXCEPT
                         !.regions = DictDel(@, region_id),
                         !.storage = DictDel(@, region_id)],
                     "None", "", <<>>)

\* MemoryPool.free(region_id, requester_task_id)
Free(pool, region_id, requester_task_id) ==
    IF ~KnownRegion(pool, region_id) THEN PoolRaise(pool, "unknown region")
    ELSE IF OwnerMismatch(pool.regions[region_id], requester_task_id)
    THEN PoolRaise(pool, "owner mismatch")
    ELSE PoolOutcome([pool EXCEPT
                         !.used_bytes = @ - pool.regions[region_id].size,
                         !.regions = DictDel(@, region_id),
                         !.storage = DictDel(@, region_id)],
                     "None", "", <<>>)

\* MemoryPool.read(region_id, offset, length)
Read(pool, region_id, offset, length) ==
    IF ~KnownRegion(pool, region_id) THEN PoolRaise(pool, "unknown region")
    ELSE IF OutOfBounds(pool.regions[region_id], offset, length)
    THEN PoolRaise(pool, "out-of-bounds")
    ELSE PoolOutcome(pool, "None", "",
                     Slice(pool.storage[region_id], offset, offset + length))

\* Write without the read_only test
WriteIgnoresReadOnly(pool, region_id, requester_task_id, offset, data) ==
    IF ~KnownRegion(pool, region_id) THEN PoolRaise(pool, "unknown region")
    ELSE IF OwnerMismatch(pool.regions[region_id], requester_task_id)
    THEN PoolRaise(pool, "owner mismatch")
    ELSE IF OutOfBounds(pool.regions[region_id], offset, Len(data))
    THEN PoolRaise(pool, "out-of-bounds")
    ELSE PoolOutcome([pool EXCEPT
                         !.storage[region_id] =
                             SliceAssign(@, offset, offset + Len(data), data)],
                     "None", "", <<>>)

\* MemoryPool.write(region_id, requester_task_id, offset, data)
Write(pool, region_id, requester_task_id, offset, data) ==
    IF ~KnownRegion(pool, region_id) THEN PoolRaise(pool, "unknown region")
    ELSE IF pool.regions[region_id].read_only THEN PoolRaise(pool, "read-only")
    ELSE IF OwnerMismatch(pool.regions[region_id], requester_task_id)
    THEN PoolRaise(pool, "owner mismatch")
    ELSE IF OutOfBounds(pool.regions[region_id], offset, Len(data))
    THEN PoolRaise(pool, "out-of-bounds")
    ELSE PoolOutcome([pool EXCEPT
                         !.storage[region_id] =
                             SliceAssign(@, offset, offset + Len(data), data)],
                     "None", "", <<>>)

\* ------------------------------------------------------------------------
\* State changes of the scheduler methods
\* ------------------------------------------------------------------------
\* the registry of one process as the scheduler uses it (monolith/metrics.py)
NewMetrics ==
    [tasks_submitted |-> 0, tasks_completed |-> 0, tasks_failed |-> 0,
     tasks_cancelled |-> 0, worker_queue_depth |-> 0]

\* the record kept in last before any scheduler call was made
NoCall ==
    [op |-> "none", w |-> 0, now |-> 0, pre |-> <<>>, hook |-> "none",
     res |-> Outcome(<<>>, <<>>, "None", 0, FALSE, <<>>, 0, 0, 0, FALSE, 0)]

\* the consecutive pairs of a sequence of states
Steps(seq) == {<<seq[k], seq[k + 1]>> : k \in 1..(Len(seq) - 1)}

\* MetricsAfterEnqueue without the worker_queue_depth.set of line 63
MetricsAfterEnqueueKeepsGauge(m, len) ==
    [m EXCEPT !.tasks_submitted = @ + 1]

\* the registry m after enqueue_from_payload left a list of this length
MetricsAfterEnqueue(m, len) ==
    [m EXCEPT !.tasks_submitted = @ + 1, !.worker_queue_depth = len]

\* scheduler w runs enqueue_from_payload on a payload with this meta block
DoEnqueue(w, owner, priority, deadline) ==
    \E ts \in {EnqueueFromPayload(tasks[w], next_id, owner, priority, deadline, clock)} :
       /\ next_id <= MaxTasks
       /\ tasks' = [tasks EXCEPT ![w] = ts]
       /\ metrics' = [metrics EXCEPT ![w] = MetricsAfterEnqueue(@, Len(ts))]
       /\ next_id' = next_id + 1
       /\ last' = [op |-> "enqueue", w |-> w, now |-> clock, pre |-> tasks[w],
                   hook |-> "none",
                   res |-> Outcome(ts, <<>>, "None", 0, FALSE, <<>>, 0, 0, 0, TRUE, 0)]
       /\ UNCHANGED <<result_queue, emitted>>

\* the effects on scheduler w of a run_once call with outcome r, begun on
\* task list pre with registry m
AfterRunOnce(w, pre, m, hook, r) ==
    /\ tasks' = [tasks EXCEPT ![w] = r.tasks]
    /\ metrics' = [metrics EXCEPT ![w] =
                     [m EXCEPT
                        !.tasks_completed = @ + r.completed,
                        !.tasks_failed = @ + r.failed,
                        !.tasks_cancelled = @ + r.cancelled,
                        !.worker_queue_depth = IF r.gauge THEN Len(r.tasks) ELSE @]]
    /\ result_queue' = result_queue \o r.out
    /\ emitted' = emitted \o [k \in 1..Len(r.out) |-> r.out[k].payload]
    /\ last' = [op |-> "run_once", w |-> w, now |-> clock, pre |-> pre,
                hook |-> IF r.stepped THEN hook ELSE "none", res |-> r]

\* scheduler w runs run_once
DoRunOnce(w, hook, send1, send2) ==
    \E r \in {RunOnce(tasks[w], clock, hook, send1, send2)} :
       AfterRunOnce(w, tasks[w], metrics[w], hook, r)

\* the record kept in lastp before any pool call was made
NoPoolCall ==
    [op |-> "none", region_id |-> 0, requester |-> 0, offset |-> 0, n |-> 0,
     data |-> <<>>, pre |-> MemoryPool(MaxBytes), raised |-> "None", msg |-> "",
     ret |-> <<>>]

\* ------------------------------------------------------------------------
\* IPC (monolith/ipc.py) on a queue that pickles what it carries
\* ------------------------------------------------------------------------
\* the messages sent: one of every MessageType, and a second TASK_RESULT
Messages ==
    {Message(t, [k |-> 0]) : t \in MessageType} \cup {Message("TASK_RESULT", [k |-> 1])}

\* Queue(maxsize): maxsize <= 0 is a queue without a bound
NewQueue(maxsize) == [items |-> <<>>, maxsize |-> maxsize]

\* what put writes for a Message: the class, then the fields in their order
Dumps(msg) == <<"Message", msg.type, msg.payload>>

\* what get rebuilds from what put wrote
Loads(wire) == [type |-> wire[2], payload |-> wire[3]]

\* the queue has a bound and holds that many items
Full(q) == q.maxsize > 0 /\ Len(q.items) >= q.maxsize

\* What one call of send, recv or collect_results did: the queue when the
\* call ends, "None" or the exception raised, the value returned, and the
\* messages the call took from the queue, in order
IpcOutcome(q, raised, ret, taken) ==
    [queue |-> q, raised |-> raised, ret |-> ret, taken |-> taken]

\* Send that puts the message although the queue is full
SendOverfull(q, msg, fault) ==
    IF fault
    THEN IpcOutcome(q, "IPCError", <<>>, <<>>)
    ELSE IpcOutcome([q EXCEPT !.items = Append(@, Dumps(msg))], "None", <<>>, <<>>)

\* ipc.send(queue, msg, timeout): put raises when the queue stays full for the
\* whole timeout, or on a fault such as a closed queue; every exception
\* becomes IPCError
Send(q, msg, fault) ==
    IF fault \/ Full(q)
    THEN IpcOutcome(q, "IPCError", <<>>, <<>>)
    ELSE IpcOutcome([q EXCEPT !.items = Append(@, Dumps(msg))], "None", <<>>, <<>>)

\* Recv that takes the newest item
RecvNewest(q, fault) ==
    IF fault \/ q.items = <<>>
    THEN IpcOutcome(q, "IPCError", <<>>, <<>>)
    ELSE IpcOutcome([q EXCEPT !.items = SubSeq(@, 1, Len(@) - 1)], "None",
                    Loads(q.items[Len(q.items)]), <<Loads(q.items[Len(q.items)])>>)

\* ipc.recv(queue, timeout) with a finite timeout: get raises when the queue
\* stays empty for the whole timeout, or on a fault; every exception becomes
\* IPCError
Recv(q, fault) ==
    IF fault \/ q.items = <<>>
    THEN IpcOutcome(q, "IPCError", <<>>, <<>>)
    ELSE IpcOutcome([q EXCEPT !.items = Tail(@)], "None",
                    Loads(Head(q.items)), <<Loads(Head(q.items))>>)

\* CollectFrom that appends the payload of every message, whatever its type
RECURSIVE CollectAnyTypeFrom(_, _, _, _, _, _)
CollectAnyTypeFrom(q, i, max_results, faultAt, results, taken) ==
    IF i > max_results THEN IpcOutcome(q, "None", results, taken)
    ELSE LET r == Recv(q, faultAt = i)
         IN IF r.raised # "None" THEN IpcOutcome(q, "None", results, taken)
            ELSE CollectAnyTypeFrom(r.queue, i + 1, max_results, faultAt,
                                    Append(results, r.ret.payload),
                                    Append(taken, r.ret))

\* the loop of collect_results from its turn i on: recv, then the payload is
\* appended if the message is a TASK_RESULT; the first IPCError ends the loop
RECURSIVE CollectFrom(_, _, _, _, _, _)
CollectFrom(q, i, max_results, faultAt, results, taken) ==
    IF i > max_results THEN IpcOutcome(q, "None", results, taken)
    ELSE LET r == Recv(q, faultAt = i)
         IN IF r.raised # "None" THEN IpcOutcome(q, "None", results, taken)
            ELSE CollectFrom(r.queue, i + 1, max_results, faultAt,
                             IF r.ret.type = "TASK_RESULT"
                             THEN Append(results, r.ret.payload) ELSE results,
                             Append(taken, r.ret))

\* Supervisor.collect_results(timeout, max_results) on the queue q; faultAt is
\* the turn at which recv meets a fault, 0 when it meets none
CollectResults(q, max_results, faultAt) ==
    CollectFrom(q, 1, max_results, faultAt, <<>>, <<>>)

\* the record kept in lastw before any worker took a turn
NoTurn == [w |-> 0, got |-> <<>>, pre |-> <<>>, prem |-> NewMetrics]

\* the record kept in lasti before any call was made on the queue
NoIpcCall ==
    [op |-> "none", msg |-> <<>>, fault |-> FALSE, n |-> 0,
     pre |-> NewQueue(MaxQueue), raised |-> "None", ret |-> <<>>, taken |-> <<>>]

\* ------------------------------------------------------------------------
\* Counter and Gauge (monolith/metrics.py) under several threads
\* ------------------------------------------------------------------------
Threads == 1..NumThreads

\* Counter(name, help_text): the value 0, the lock held by no thread (0)
NewCounter == [value |-> 0, lock |-> 0]

\* Gauge(name, help_text)
NewGauge == [value |-> 0, lock |-> 0]

\* a thread that is in no call
IdleThread == [pc |-> "idle", target |-> "none", op |-> "none", amount |-> 0, tmp |-> 0]

\* ------------------------------------------------------------------------
\* Spec: one scheduler used through its public API
\* ------------------------------------------------------------------------
Init ==
    /\ clock = 0
    /\ tasks = [w \in Workers |-> <<>>]
    /\ metrics = [w \in Workers |-> NewMetrics]
    /\ result_queue = <<>>
    /\ emitted = <<>>
    /\ next_id = 1
    /\ last = NoCall
    /\ started = FALSE
    /\ sup_pc = "idle"
    /\ workers = {}
    /\ proc = [w \in Workers |-> "unborn"]
    /\ task_queue = <<>>
    /\ stops = 0
    /\ memory = MemoryPool(MaxBytes)
    /\ lastp = NoPoolCall
    /\ sup_submitted = 0
    /\ lasts = [op |-> "none", raised |-> "None", pre |-> <<>>]
    /\ with_pc = "none"
    /\ queue = NewQueue(MaxQueue)
    /\ sent_log = <<>>
    /\ recv_log = <<>>
    /\ lasti = NoIpcCall
    /\ counter_m = NewCounter
    /\ gauge_m = NewGauge
    /\ threads = [t \in Threads |-> IdleThread]
    /\ applied = [counter |-> 0, gauge |-> 0, calls |-> 0]
    /\ overruns = 0
    /\ lastq = [elapsed_ms |-> 0, pre |-> 0]
    /\ lastw = NoTurn

\* time passes between two calls
Tick ==
    /\ clock < MaxTime
    /\ clock' = clock + 1
    /\ UNCHANGED <<next_id, schedvars, supvars, memvars, apivars, libvars>>

\* scheduler.enqueue_from_payload(payload)
Enqueue ==
    /\ \E m \in Metas : DoEnqueue(1, m.owner, m.priority, m.deadline)
    /\ UNCHANGED <<clock, supvars, memvars, apivars, libvars>>

\* scheduler.run_once()
RunOnceCall ==
    /\ \E in \in RunInputs : DoRunOnce(1, in[1], in[2], in[3])
    /\ UNCHANGED <<clock, next_id, supvars, memvars, apivars, libvars>>

Next == Tick \/ Enqueue \/ RunOnceCall

Spec == Init /\ [][Next]_vars

\* ------------------------------------------------------------------------
\* SpecSystem: the supervisor and its worker processes
\* (monolith/supervisor.py, monolith/worker.py)
\* ------------------------------------------------------------------------
\* the messages the supervisor puts on the task queue. uuid4() of the Task a
\* worker builds from a submission is modelled by the submission's number n:
\* a message leaves the queue once, so every number names one Task.
SubmitMessage(n, meta) == Message("TASK_SUBMIT", [n |-> n, meta |-> meta])

ShutdownMessage == Message("CONTROL", [action |-> "shutdown"])

\* what a Supervisor method finds when it is called
SupState ==
    [started |-> started, workers |-> workers, task_queue |-> task_queue,
     sup_submitted |-> sup_submitted]

\* a call of a Supervisor method: raised is "None" once it has returned,
\* "pending" while it runs, or the exception that left it; pre is what it found
SupCall(op, raised, pre) == [op |-> op, raised |-> raised, pre |-> pre]

\* AlreadyStarted with the test of _started lost
AlreadyStartedNever == started /\ ~started

\* the test that opens start()
AlreadyStarted == started

\* Supervisor.start() on a supervisor that is not started: every worker
\* process is spawned with a scheduler and a registry of its own
DoStart ==
    /\ sup_pc = "idle"
    /\ ~AlreadyStarted
    /\ started' = TRUE
    /\ workers' = Workers
    /\ proc' = [w \in Workers |-> "alive"]
    /\ tasks' = [w \in Workers |-> <<>>]
    /\ metrics' = [w \in Workers |-> NewMetrics]
    /\ lasts' = SupCall("start", "None", SupState)
    /\ UNCHANGED <<clock, next_id, result_queue, emitted, last, sup_pc, task_queue, stops,
                   memvars, libvars, sup_submitted>>

Start == DoStart /\ UNCHANGED with_pc

\* Supervisor.start() on a started supervisor: RuntimeError, nothing else
StartAgain ==
    /\ sup_pc = "idle"
    /\ AlreadyStarted
    /\ lasts' = SupCall("start", "RuntimeError: already started", SupState)
    /\ UNCHANGED <<clock, next_id, schedvars, supvars, memvars, libvars, sup_submitted,
                   with_pc>>

\* SubmittedAfterSend with the counter incremented before the send is tried
SubmittedBeforeSend(n, sendOk) == n + 1

\* tasks_submitted after submit_task: inc() follows a send that returned
SubmittedAfterSend(n, sendOk) == IF sendOk THEN n + 1 ELSE n

\* Supervisor.submit_task(payload) on a started supervisor; the send succeeds,
\* or fails with IPCError, which reaches the caller and leaves the queue as
\* it was: no task was submitted
SubmitTask ==
    /\ sup_pc = "idle"
    /\ started
    /\ next_id <= MaxSubmits
    /\ \E m \in SupervisorMetas, sendOk \in BOOLEAN :
          /\ task_queue' = IF sendOk THEN Append(task_queue, SubmitMessage(next_id, m))
                           ELSE task_queue
          /\ next_id' = IF sendOk THEN next_id + 1 ELSE next_id
          /\ sup_submitted' = SubmittedAfterSend(sup_submitted, sendOk)
          /\ lasts' = SupCall("submit_task", IF sendOk THEN "None" ELSE "IPCError",
                              SupState)
    /\ UNCHANGED <<clock, schedvars, started, sup_pc, workers, proc, stops, memvars, libvars,
                   with_pc>>

\* Supervisor.submit_task(payload) on a supervisor that is not started
SubmitNotStarted ==
    /\ sup_pc = "idle"
    /\ ~started
    /\ lasts' = SupCall("submit_task", "RuntimeError: not started", SupState)
    /\ UNCHANGED <<clock, next_id, schedvars, supvars, memvars, libvars, sup_submitted,
                   with_pc>>

\* ShutdownsFor that broadcasts a single message, whatever the number of workers
ShutdownsForOne(ws) == IF ws = {} THEN 0 ELSE 1

\* the number of sends of the first loop of stop(): "for _ in self._workers"
ShutdownsFor(ws) == Cardinality(ws)

\* Supervisor.stop(), first loop: one shutdown message is sent per worker of
\* the list, send errors being absorbed; sent is the number that got through
DoStopSend ==
    /\ sup_pc = "idle"
    /\ started
    /\ \E sent \in 0..ShutdownsFor(workers) :
          task_queue' = task_queue \o [k \in 1..sent |-> ShutdownMessage]
    /\ sup_pc' = "joining"
    /\ lasts' = SupCall("stop", "pending", SupState)
    /\ UNCHANGED <<clock, next_id, schedvars, started, workers, proc, memvars, libvars,
                   sup_submitted>>

StopSend ==
    /\ stops < MaxStops
    /\ stops' = stops + 1
    /\ DoStopSend
    /\ UNCHANGED with_pc

\* AfterJoin without terminate(): a worker that is still alive is left alive
AfterJoinNoTerminate(p) == p

\* what the second loop of stop() makes of one worker process: a process
\* still alive when join times out is terminated and joined again
AfterJoin(p) == IF p = "alive" THEN "terminated" ELSE p

\* Supervisor.stop(), second loop and end: the workers are joined; a worker
\* still alive when its share of the timeout has elapsed is terminated; the
\* list is cleared and the supervisor is marked not started. The scheduler
\* and the registry of a process end with it.
StopJoin ==
    /\ sup_pc = "joining"
    /\ proc' = [w \in Workers |-> AfterJoin(proc[w])]
    /\ tasks' = [w \in Workers |-> IF proc'[w] = "alive" THEN tasks[w] ELSE <<>>]
    /\ metrics' = [w \in Workers |-> IF proc'[w] = "alive" THEN metrics[w] ELSE NewMetrics]
    /\ workers' = {}
    /\ started' = FALSE
    /\ sup_pc' = "idle"
    /\ lasts' = [lasts EXCEPT !.raised = "None"]
    /\ with_pc' = IF with_pc = "exiting" THEN "left"
                  ELSE IF with_pc = "exiting on exception" THEN "left on exception"
                  ELSE with_pc
    /\ UNCHANGED <<clock, next_id, result_queue, emitted, last, task_queue, stops,
                   memvars, libvars, sup_submitted>>

\* Supervisor.stop() on a supervisor that is not started: it returns at once
StopNotStarted ==
    /\ sup_pc = "idle"
    /\ ~started
    /\ lasts' = SupCall("stop", "None", SupState)
    /\ UNCHANGED <<clock, next_id, schedvars, supvars, memvars, libvars, sup_submitted,
                   with_pc>>

\* AfterGet that leaves the message on the queue
AfterGetKeepsMessage(q) == q

\* the task queue after recv took a message from it: queue.get() removes the
\* oldest message, so no other process receives it
AfterGet(q) == Tail(q)

\* worker_main, one turn of the loop in which recv times out on an empty
\* queue: run_once is called; an IPCError it raises is raised inside the
\* except clause, leaves worker_main and ends the process
WorkerTimeout(w) ==
    /\ proc[w] = "alive"
    /\ task_queue = <<>>
    /\ \E in \in RunInputs : DoRunOnce(w, in[1], in[2], in[3])
    /\ proc' = [proc EXCEPT ![w] = IF last'.res.raised = "None" THEN "alive" ELSE "crashed"]
    /\ UNCHANGED <<clock, next_id, started, sup_pc, workers, task_queue, stops, memvars,
                   apivars, libvars>>

\* worker_main, one turn of the loop that receives a TASK_SUBMIT: the payload
\* is enqueued, then run_once is called
WorkerSubmit(w) ==
    /\ proc[w] = "alive"
    /\ task_queue # <<>>
    /\ Head(task_queue).type = "TASK_SUBMIT"
    /\ task_queue' = AfterGet(task_queue)
    /\ \E in \in RunInputs :
          LET p == Head(task_queue).payload
          IN \E ts \in {EnqueueFromPayload(tasks[w], p.n, p.meta.owner, p.meta.priority,
                                           p.meta.deadline, clock)} :
                \E r \in {RunOnce(ts, clock, in[1], in[2], in[3])} :
                   AfterRunOnce(w, ts, MetricsAfterEnqueue(metrics[w], Len(ts)), in[1], r)
    /\ proc' = [proc EXCEPT ![w] = IF last'.res.raised = "None" THEN "alive" ELSE "crashed"]
    /\ UNCHANGED <<clock, next_id, started, sup_pc, workers, stops, memvars, apivars,
                   libvars>>

\* LeavesLoop that breaks on every CONTROL message
LeavesLoopOnAnyControl(msg) == msg.type = "CONTROL"

\* the break of worker_main: the message is a CONTROL whose action, taken
\* with payload.get("action", ""), is "shutdown"
LeavesLoop(msg) == msg.type = "CONTROL" /\ msg.payload.action = "shutdown"

\* worker_main, one turn of the loop that receives CONTROL: on the action
\* "shutdown" the loop is left and the process ends, the scheduler and its
\* tasks with it; any other action is logged only
WorkerControl(w) ==
    /\ proc[w] = "alive"
    /\ task_queue # <<>>
    /\ Head(task_queue).type = "CONTROL"
    /\ task_queue' = AfterGet(task_queue)
    /\ proc' = [proc EXCEPT ![w] = IF LeavesLoop(Head(task_queue))
                                   THEN "exited" ELSE "alive"]
    /\ UNCHANGED <<clock, next_id, schedvars, started, sup_pc, workers, stops, memvars,
                   apivars, libvars>>

NextSystem ==
    \/ Tick
    \/ Start
    \/ SubmitTask
    \/ StopSend
    \/ StopJoin
    \/ \E w \in Workers : WorkerTimeout(w)
    \/ \E w \in Workers : WorkerSubmit(w)
    \/ \E w \in Workers : WorkerControl(w)

SpecSystem == Init /\ [][NextSystem]_vars

\* ------------------------------------------------------------------------
\* SpecSupervisor: every Supervisor method in every state of the supervisor,
\* beside worker processes whose turns are undisturbed
\* ------------------------------------------------------------------------
\* a worker turn with the default hooks and a working result queue: the step
\* returns and the task is complete, and no ipc.send fails
Undisturbed == last'.hook = "complete" /\ last'.res.sends = Len(last'.res.out)

\* as Undisturbed, but the step may also park its task in WAITING
UndisturbedOrParked ==
    /\ last'.hook \in {"complete", "wait", "none"}
    /\ last'.res.sends = Len(last'.res.out)

\* a turn of worker_main that receives a TASK_SUBMIT and completes the task
DefaultSubmit(w) == WorkerSubmit(w) /\ Undisturbed

\* a turn of worker_main that receives a TASK_SUBMIT and completes or parks
\* the selected task
QuietSubmit(w) == WorkerSubmit(w) /\ UndisturbedOrParked

\* a turn of worker_main in which recv times out and run_once finds nothing
\* to do, or completes or parks the selected task
QuietTimeout(w) == WorkerTimeout(w) /\ UndisturbedOrParked

NextSupervisor ==
    \/ Start
    \/ StartAgain
    \/ SubmitTask
    \/ SubmitNotStarted
    \/ StopSend
    \/ StopJoin
    \/ StopNotStarted
    \/ \E w \in Workers : DefaultSubmit(w)
    \/ \E w \in Workers : WorkerControl(w)

SpecSupervisor == Init /\ [][NextSupervisor]_vars

\* ------------------------------------------------------------------------
\* SpecWith: one "with Supervisor(...) as sup:" statement whose body submits
\* tasks (monolith/supervisor.py, __enter__ and __exit__)
\* ------------------------------------------------------------------------
\* ExitCallsStop that skips stop() when the body raised
ExitCallsStopOnSuccess(body_raised) == ~body_raised

\* Supervisor.__exit__(*_) calls stop() whatever it is given
ExitCallsStop(body_raised) == body_raised \/ ~body_raised

\* "with Supervisor(...) as sup:": __enter__ calls start() and the body begins
WithEnter ==
    /\ with_pc = "none"
    /\ DoStart
    /\ with_pc' = "body"

\* the body of the with statement ends, normally or by an exception, and
\* __exit__ is called: on a started supervisor stop() sends the shutdown
\* messages and then joins, on a stopped one it returns at once
WithExit ==
    /\ with_pc = "body"
    /\ sup_pc = "idle"
    /\ \E body_raised \in BOOLEAN :
          IF ExitCallsStop(body_raised) /\ started
          THEN /\ DoStopSend
               /\ with_pc' = IF body_raised THEN "exiting on exception" ELSE "exiting"
               /\ UNCHANGED stops
          ELSE /\ with_pc' = IF body_raised THEN "left on exception" ELSE "left"
               /\ lasts' = IF ExitCallsStop(body_raised)
                           THEN SupCall("stop", "None", SupState) ELSE lasts
               /\ UNCHANGED <<clock, next_id, schedvars, supvars, memvars, libvars,
                              sup_submitted>>

NextWith ==
    \/ WithEnter
    \/ SubmitTask
    \/ WithExit
    \/ StopJoin
    \/ \E w \in Workers : QuietTimeout(w)
    \/ \E w \in Workers : QuietSubmit(w)
    \/ \E w \in Workers : WorkerControl(w)

SpecWith == Init /\ [][NextWith]_vars

\* ------------------------------------------------------------------------
\* SpecWorkers: the worker processes of a supervisor taking submissions from
\* the shared task queue in every order, their steps completing or parking
\* the tasks
\* ------------------------------------------------------------------------
NextWorkers ==
    \/ Start
    \/ SubmitTask
    \/ StopSend
    \/ StopJoin
    \/ \E w \in Workers : QuietTimeout(w)
    \/ \E w \in Workers : QuietSubmit(w)
    \/ \E w \in Workers : WorkerControl(w)

SpecWorkers == Init /\ [][NextWorkers]_vars

\* ------------------------------------------------------------------------
\* SpecPool: one MemoryPool used through its public API, as tests/test_memory.py
\* ------------------------------------------------------------------------
\* the sizes asked of alloc: negative, zero, and up to one more than fits
Sizes == (0 - 1)..(MaxBytes + 1)

\* the offsets and lengths passed to read and write
Offsets == (0 - 1)..MaxBytes

Lengths == (0 - 1)..MaxBytes

\* the byte strings passed to write: b"", one byte and two bytes
Datas == UNION {[1..n -> Bytes] : n \in 0..2}

\* the region ids passed to read and write; alloc and free take every id, so
\* the region read or written is absent, alone, or beside another one
Accessed == {1}

\* the pool call with outcome r, made on the pool as it is now
AfterPoolCall(op, region_id, requester, offset, n, data, r) ==
    /\ memory' = r.pool
    /\ lastp' = [op |-> op, region_id |-> region_id, requester |-> requester,
                 offset |-> offset, n |-> n, data |-> data, pre |-> memory,
                 raised |-> r.raised, msg |-> r.msg, ret |-> r.ret]
    /\ UNCHANGED <<clock, next_id, schedvars, supvars, apivars, libvars>>

\* pool.alloc(region_id, owner_task_id, size)
PoolAlloc ==
    \E region_id \in RegionIds, owner \in Requesters, size \in Sizes :
       \E r \in {Alloc(memory, region_id, owner, size)} :
          AfterPoolCall("alloc", region_id, owner, 0, size, <<>>, r)

\* pool.free(region_id, requester_task_id)
PoolFree ==
    \E region_id \in RegionIds, requester \in Requesters :
       \E r \in {Free(memory, region_id, requester)} :
          AfterPoolCall("free", region_id, requester, 0, 0, <<>>, r)

\* pool.read(region_id, offset, length)
PoolRead ==
    \E region_id \in Accessed, offset \in Offsets, length \in Lengths :
       \E r \in {Read(memory, region_id, offset, length)} :
          AfterPoolCall("read", region_id, 0, offset, length, <<>>, r)

\* pool.write(region_id, requester_task_id, offset, data)
PoolWrite ==
    \E region_id \in Accessed, requester \in Requesters, offset \in Offsets,
       data \in Datas :
       \E r \in {Write(memory, region_id, requester, offset, data)} :
          AfterPoolCall("write", region_id, requester, offset, Len(data), data, r)

\* r.read_only = True on the Region that alloc returned, which is the object
\* the pool keeps
SetReadOnly ==
    \E region_id \in DOMAIN memory.regions :
       /\ ~memory.regions[region_id].read_only
       /\ \E r \in {PoolOutcome([memory EXCEPT !.regions[region_id].read_only = TRUE],
                                 "None", "", <<>>)} :
             AfterPoolCall("read_only", region_id, 0, 0, 0, <<>>, r)

NextPool == PoolAlloc \/ PoolFree \/ PoolRead \/ PoolWrite \/ SetReadOnly

SpecPool == Init /\ [][NextPool]_vars

\* ------------------------------------------------------------------------
\* SpecMemory: one scheduler whose step hook allocates from the scheduler's pool
\* ------------------------------------------------------------------------
\* scheduler.run_once() under a step hook that may first allocate a region of
\* one byte for the task it is given, named after the task, from
\* self._memory, and then returns, parks the task or raises as in RunInputs.
\* The hook allocates only a region that the pool will grant.
RunOnceWithMemory ==
    /\ \E in \in RunInputs, alloc \in BOOLEAN :
          \E r \in {RunOnce(tasks[1], clock, in[1], in[2], in[3])} :
             \E a \in {IF r.stepped THEN Alloc(memory, r.sel, r.sel, 1)
                       ELSE PoolRaise(memory, "not stepped")} :
                /\ alloc => a.raised = "None"
                /\ AfterRunOnce(1, tasks[1], metrics[1], in[1], r)
                /\ memory' = IF alloc THEN a.pool ELSE memory
                /\ lastp' = [NoPoolCall EXCEPT !.op = "run_once", !.pre = memory]
    /\ UNCHANGED <<clock, next_id, supvars, apivars, libvars>>

NextMemory == Enqueue \/ RunOnceWithMemory

SpecMemory == Init /\ [][NextMemory]_vars

\* ------------------------------------------------------------------------
\* SpecIpc: one bounded queue used through send, recv and collect_results,
\* as tests/test_ipc.py
\* ------------------------------------------------------------------------
\* the call with outcome r, made on the queue as it is now
AfterIpcCall(op, msg, fault, n, r) ==
    /\ queue' = r.queue
    /\ sent_log' = IF op = "send" /\ r.raised = "None" THEN Append(sent_log, msg)
                   ELSE sent_log
    /\ recv_log' = recv_log \o r.taken
    /\ lasti' = [op |-> op, msg |-> msg, fault |-> fault, n |-> n, pre |-> queue,
                 raised |-> r.raised, ret |-> r.ret, taken |-> r.taken]
    /\ UNCHANGED <<clock, next_id, schedvars, supvars, memvars, apivars, thrvars,
                   quantumvars, lastw>>

\* send(q, msg, timeout) with a finite timeout, nobody taking from the queue
\* meanwhile
IpcSend ==
    /\ Len(sent_log) < MaxSent
    /\ \E msg \in Messages, fault \in BOOLEAN :
          \E r \in {Send(queue, msg, fault)} : AfterIpcCall("send", msg, fault, 0, r)

\* recv(q, timeout) with a finite timeout, nobody putting on the queue meanwhile
IpcRecv ==
    \E fault \in BOOLEAN :
       \E r \in {Recv(queue, fault)} : AfterIpcCall("recv", <<>>, fault, 0, r)

\* collect_results(timeout, max_results) on the queue
IpcCollect ==
    \E max_results \in 0..(MaxQueue + 1), faultAt \in 0..MaxQueue :
       /\ faultAt <= max_results
       /\ \E r \in {CollectResults(queue, max_results, faultAt)} :
             AfterIpcCall("collect_results", faultAt, faultAt > 0, max_results, r)

NextIpc == IpcSend \/ IpcRecv \/ IpcCollect

SpecIpc == Init /\ [][NextIpc]_vars

\* ------------------------------------------------------------------------
\* SpecMetrics: threads that call inc, dec and set on one Counter and one Gauge
\* ------------------------------------------------------------------------
\* the calls made: inc() on the counter; inc(), dec() and set(v) on the gauge
MetricCalls ==
    {[target |-> "counter", op |-> "inc", amount |-> 1],
     [target |-> "gauge", op |-> "inc", amount |-> 1],
     [target |-> "gauge", op |-> "dec", amount |-> 1],
     [target |-> "gauge", op |-> "set", amount |-> 2]}

\* the Counter or the Gauge
Metric(target) == IF target = "counter" THEN counter_m ELSE gauge_m

\* LockFree of a lock that excludes nobody
LockFreeAlways(m) == m.lock = m.lock

\* with self._lock: can be entered
LockFree(m) == m.lock = 0

\* what a call assigns to _value, tmp being the value it loaded
NewValue(op, tmp, amount) ==
    IF op = "inc" THEN tmp + amount
    ELSE IF op = "dec" THEN tmp - amount
    ELSE amount

\* the metrics with this one replaced
SetMetric(target, m) ==
    /\ counter_m' = IF target = "counter" THEN m ELSE counter_m
    /\ gauge_m' = IF target = "gauge" THEN m ELSE gauge_m

\* thread t calls a method and enters "with self._lock"
Acquire(t) ==
    /\ threads[t].pc = "idle"
    /\ applied.calls < MaxCalls
    /\ \E c \in MetricCalls :
          /\ LockFree(Metric(c.target))
          /\ SetMetric(c.target, [Metric(c.target) EXCEPT !.lock = t])
          /\ threads' = [threads EXCEPT ![t] =
                            [pc |-> IF c.op = "set" THEN "store" ELSE "load",
                             target |-> c.target, op |-> c.op, amount |-> c.amount,
                             tmp |-> 0]]
          /\ applied' = [applied EXCEPT !.calls = @ + 1]
    /\ UNCHANGED <<clock, next_id, schedvars, supvars, memvars, apivars, ipcvars,
                   quantumvars, lastw>>

\* self._value += amount, first half: the value is loaded
Load(t) ==
    /\ threads[t].pc = "load"
    /\ threads' = [threads EXCEPT ![t].tmp = Metric(threads[t].target).value,
                                  ![t].pc = "store"]
    /\ UNCHANGED <<clock, next_id, schedvars, supvars, memvars, apivars, ipcvars,
                   quantumvars, lastw, counter_m, gauge_m, applied>>

\* self._value += amount, second half, or self._value = value: the value is
\* stored; applied records the same update made on top of all earlier ones
Store(t) ==
    /\ threads[t].pc = "store"
    /\ \E th \in {threads[t]} :
          /\ SetMetric(th.target,
                       [Metric(th.target) EXCEPT
                           !.value = NewValue(th.op, th.tmp, th.amount)])
          /\ applied' = [applied EXCEPT
                            ![th.target] = NewValue(th.op, @, th.amount)]
    /\ threads' = [threads EXCEPT ![t].pc = "release"]
    /\ UNCHANGED <<clock, next_id, schedvars, supvars, memvars, apivars, ipcvars,
                   quantumvars, lastw>>

\* the with block is left: the lock is released and the call returns
Release(t) ==
    /\ threads[t].pc = "release"
    /\ \E th \in {threads[t]} :
          SetMetric(th.target, [Metric(th.target) EXCEPT !.lock = 0])
    /\ threads' = [threads EXCEPT ![t] = IdleThread]
    /\ UNCHANGED <<clock, next_id, schedvars, supvars, memvars, apivars, ipcvars, applied,
                   quantumvars, lastw>>

NextMetrics ==
    \/ \E t \in Threads : Acquire(t)
    \/ \E t \in Threads : Load(t)
    \/ \E t \in Threads : Store(t)
    \/ \E t \in Threads : Release(t)

SpecMetrics == Init /\ [][NextMetrics]_vars

\* ------------------------------------------------------------------------
\* SpecSteps: one scheduler whose interpreter needs several steps for a task
\* ------------------------------------------------------------------------
\* the inputs of one run_once call of such a scheduler: the step completes
\* the task, parks it in WAITING, or returns with the task unfinished; the
\* sends succeed
StepInputs ==
    {<<"complete", TRUE, TRUE>>, <<"wait", TRUE, TRUE>>, <<"unfinished", TRUE, TRUE>>}

\* scheduler.run_once() with a multi-step interpreter
RunOnceStep ==
    /\ \E in \in StepInputs : DoRunOnce(1, in[1], in[2], in[3])
    /\ UNCHANGED <<clock, next_id, supvars, memvars, apivars, libvars>>

NextSteps == Enqueue \/ RunOnceStep

SpecSteps == Init /\ [][NextSteps]_vars

\* ------------------------------------------------------------------------
\* SpecQuantum: one scheduler whose quanta take a measured time
\* (monolith/scheduler.py, the finally clause of _run_task_quantum)
\* ------------------------------------------------------------------------
\* quantum_ms of the scheduler
QuantumMs == 1

\* Overrun with >= for >
OverrunInclusive(elapsed_ms, quantum_ms) == elapsed_ms >= quantum_ms

\* the test of the finally clause: elapsed_ms > self._quantum_ms
Overrun(elapsed_ms, quantum_ms) == elapsed_ms > quantum_ms

\* scheduler_quantum_overruns after a run_once call: the finally clause runs
\* when _run_task_quantum was entered, however the try block ended
OverrunsAfter(n, stepped, elapsed_ms) ==
    IF stepped /\ Overrun(elapsed_ms, QuantumMs) THEN n + 1 ELSE n

\* the inputs of a timed run_once call: the step completes the task, raises,
\* or returns with the task unfinished, and the sends succeed; or the step
\* completes the task and both sends fail, so that IPCError leaves the call
QuantumInputs ==
    {<<"complete", TRUE, TRUE>>, <<"raise", TRUE, TRUE>>, <<"unfinished", TRUE, TRUE>>,
     <<"complete", FALSE, FALSE>>}

\* scheduler.run_once() in which time.time() advances by elapsed_ms between
\* the start of the quantum and its finally clause
RunOnceTimed ==
    /\ overruns < MaxOverruns
    /\ \E in \in QuantumInputs, elapsed_ms \in 0..MaxElapsed :
          /\ DoRunOnce(1, in[1], in[2], in[3])
          /\ overruns' = OverrunsAfter(overruns, last'.res.stepped, elapsed_ms)
          /\ lastq' = [elapsed_ms |-> elapsed_ms, pre |-> overruns]
    /\ UNCHANGED <<clock, next_id, supvars, memvars, apivars, ipcvars, thrvars, lastw>>

NextQuantum == Enqueue \/ RunOnceTimed

SpecQuantum == Init /\ [][NextQuantum]_vars

\* ------------------------------------------------------------------------
\* SpecLoop: the loop of worker_main fed with messages of every kind
\* (monolith/worker.py)
\* ------------------------------------------------------------------------
\* the messages put on the task queue: the n-th submission, a shutdown, a
\* CONTROL with another action, and one of each remaining MessageType
LoopMessages(n) ==
    {SubmitMessage(n, [owner |-> "system", priority |-> 0, deadline |-> <<>>]),
     ShutdownMessage,
     Message("CONTROL", [action |-> "reload"]),
     Message("WORKER_STATUS", [action |-> ""]),
     Message("TASK_RESULT", [action |-> ""])}

\* the inputs of the run_once call of a turn: the step completes the task
\* and the sends succeed, or they fail, so that IPCError leaves run_once
LoopInputs == {<<"complete", TRUE, TRUE>>, <<"complete", FALSE, FALSE>>}

\* a message is put on the task queue of the started supervisor
PutMessage ==
    /\ started
    /\ Len(task_queue) < MaxQueue
    /\ \E msg \in LoopMessages(next_id) :
          /\ msg.type = "TASK_SUBMIT" => next_id <= MaxSubmits
          /\ task_queue' = Append(task_queue, msg)
          /\ next_id' = IF msg.type = "TASK_SUBMIT" THEN next_id + 1 ELSE next_id
    /\ UNCHANGED <<clock, schedvars, started, sup_pc, workers, proc, stops, memvars,
                   apivars, libvars>>

\* worker_main, one turn of the loop of worker w: recv gives the oldest
\* message or times out on an empty queue; a timeout and a message that is
\* neither TASK_SUBMIT nor CONTROL call run_once, TASK_SUBMIT enqueues and
\* calls run_once, CONTROL breaks on "shutdown" and does nothing otherwise;
\* an IPCError of run_once leaves worker_main
LoopTurn(w) ==
    /\ proc[w] = "alive"
    /\ \E got \in {IF task_queue = <<>> THEN <<>> ELSE <<Head(task_queue)>>} :
          /\ task_queue' = IF got = <<>> THEN task_queue ELSE AfterGet(task_queue)
          /\ lastw' = [w |-> w, got |-> got, pre |-> tasks[w], prem |-> metrics[w]]
          /\ IF got # <<>> /\ got[1].type = "CONTROL"
             THEN /\ proc' = [proc EXCEPT ![w] = IF LeavesLoop(got[1]) THEN "exited"
                                                 ELSE "alive"]
                  /\ UNCHANGED schedvars
             ELSE /\ \E in \in LoopInputs :
                        IF got # <<>> /\ got[1].type = "TASK_SUBMIT"
                        THEN \E ts \in {EnqueueFromPayload(
                                            tasks[w], got[1].payload.n,
                                            got[1].payload.meta.owner,
                                            got[1].payload.meta.priority,
                                            got[1].payload.meta.deadline, clock)} :
                                \E r \in {RunOnce(ts, clock, in[1], in[2], in[3])} :
                                   AfterRunOnce(w, ts,
                                                MetricsAfterEnqueue(metrics[w], Len(ts)),
                                                in[1], r)
                        ELSE DoRunOnce(w, in[1], in[2], in[3])
                  /\ proc' = [proc EXCEPT ![w] = IF last'.res.raised = "None"
                                                 THEN "alive" ELSE "crashed"]
    /\ UNCHANGED <<clock, next_id, started, sup_pc, workers, stops, memvars, apivars,
                   ipcvars, thrvars, quantumvars>>

NextLoop ==
    \/ Start
    \/ PutMessage
    \/ \E w \in Workers : LoopTurn(w)

SpecLoop == Init /\ [][NextLoop]_vars

\* ------------------------------------------------------------------------
\* SpecProgress: worker processes that keep running their loops, with step
\* hooks that park their tasks for a while and then complete them
\* ------------------------------------------------------------------------
\* a turn of worker_main in which recv times out and run_once selects a task
\* that is not parked again: its step returns without setting WAITING, or
\* its deadline has passed
CompletingTimeout(w) ==
    QuietTimeout(w) /\ last'.res.sel # 0 /\ last'.hook # "wait"

\* the worker processes whose loops are followed: the first and the last that
\* start() created. A turn of another worker changes no task list but its own
Polling == {1, NumWorkers}

NextProgress ==
    \/ Tick
    \/ Start
    \/ SubmitTask
    \/ \E w \in Polling : QuietSubmit(w)
    \/ \E w \in Polling : QuietTimeout(w)

\* a live worker goes round its "while True" loop for ever, so a message on
\* the task queue is received in the end and recv keeps timing out on an
\* empty queue; and no hook parks its task for ever
FairProgress ==
    /\ WF_vars(\E w \in Polling : QuietSubmit(w))
    /\ \A w \in Polling : WF_vars(CompletingTimeout(w))

SpecProgress == Init /\ [][NextProgress]_vars /\ FairProgress

\* ------------------------------------------------------------------------
\* SpecShutdown: a stop() whose sends all succeed, on worker processes that
\* keep polling the task queue within the budget of the join
\* ------------------------------------------------------------------------
\* Supervisor.stop(), first loop, every ipc.send succeeding
StopSendAll ==
    /\ StopSend
    /\ Len(task_queue') = Len(task_queue) + ShutdownsFor(workers)

\* Supervisor.stop(), second loop, with a budget that outlasts every worker
\* that still has a message to receive: join times out only on a live worker
\* for which the task queue holds nothing
PatientJoin ==
    /\ StopJoin
    /\ \A w \in Workers : proc[w] = "alive" => task_queue = <<>>

NextShutdown ==
    \/ Start
    \/ SubmitTask
    \/ StopSendAll
    \/ PatientJoin
    \/ \E w \in Workers : QuietSubmit(w)
    \/ \E w \in Workers : QuietTimeout(w)
    \/ \E w \in Workers : WorkerControl(w)

\* a live worker goes round its loop for ever, so it receives what is on the
\* task queue; every join of stop() returns
FairShutdown ==
    /\ WF_vars(PatientJoin)
    /\ \A w \in Workers : WF_vars(QuietSubmit(w)) /\ WF_vars(WorkerControl(w))

SpecShutdown == Init /\ [][NextShutdown]_vars /\ FairShutdown

\* ------------------------------------------------------------------------
\* Properties
\* ------------------------------------------------------------------------
\* the most recent scheduler call was run_once
IsRun == last.op = "run_once"

\* that call selected a task
Selected == last.res.sel # 0

\* the selected task as it was when the call began
SelTask == last.pre[IndexOf(last.pre, last.res.sel)]

\* the tasks of a list other than the selected one, in list order
Others(ts) == SelectSeq(ts, LAMBDA t : t.id # last.res.sel)

\* the task with this id is in the list
Listed(ts, id) == \E k \in 1..Len(ts) : ts[k].id = id

\* the call assigned this state to the selected task
InTrace(st) == \E k \in 1..Len(last.res.trace) : last.res.trace[k] = st

\* the selected task's deadline was set and the call's now strictly past it
PastDeadline == SelTask.deadline # <<>> /\ last.now > SelTask.deadline[1]

\* the call put exactly one result on the queue: the selected task's, with
\* this state and this last_error
EmittedOne(st, err) ==
    last.res.out = <<Message("TASK_RESULT",
                             [id |-> SelTask.id, owner |-> SelTask.owner,
                              state |-> st, last_error |-> err])>>

\* the states the specification calls terminal
Terminal == {"DONE", "FAILED", "CANCELLED"}

\* the transitions of section 3 of the specification
LegalTransitions ==
    {<<"PENDING", "RUNNING">>, <<"RUNNING", "DONE">>, <<"RUNNING", "FAILED">>,
     <<"RUNNING", "WAITING">>, <<"WAITING", "RUNNING">>, <<"PENDING", "CANCELLED">>}

\* stop() has returned, every worker left its loop on a shutdown message, and
\* no submission is left on the task queue
CleanStop ==
    /\ sup_pc = "idle" /\ ~started /\ stops > 0
    /\ \A w \in Workers : proc[w] = "exited"
    /\ \A k \in 1..Len(task_queue) : task_queue[k].type # "TASK_SUBMIT"

\* C1: every task submitted through submit_task yields exactly one TASK_RESULT
\* with its id on the result queue, whatever the step hook does and whenever
\* shutdown is requested. Stated at the end of a run: once the supervisor has
\* stopped and all workers have exited on shutdown, nothing can emit any more,
\* so each submitted task must have its one result by then.
C1_EverySubmissionReportedOnce ==
    CleanStop =>
        \A n \in 1..(next_id - 1) :
            Cardinality({k \in 1..Len(emitted) : emitted[k].id = n}) = 1

\* C2: at most one TASK_RESULT is ever put on the result queue for a task id,
\* over any sequence of enqueue_from_payload and run_once calls, failing steps
\* and failing sends included.
C2_AtMostOneResult ==
    \A id \in TaskIds : Cardinality({k \in 1..Len(emitted) : emitted[k].id = id}) <= 1

\* a call whose first send failed and whose second send put the result
C2_Witness ==
    /\ IsRun /\ Selected
    /\ last.res.sends = 2 /\ Len(last.res.out) = 1
    /\ Cardinality({k \in 1..Len(emitted) : emitted[k].id = last.res.sel}) = 1

\* C3 as stated: the selected task is moved to CANCELLED, with tasks_cancelled
\* incremented, a CANCELLED result emitted and the task removed, exactly when
\* its deadline is set and strictly past; it is then neither RUNNING nor stepped.
C3_CancelledWithResultIffPastDeadline ==
    IsRun /\ Selected =>
        /\ PastDeadline <=>
              /\ InTrace("CANCELLED")
              /\ last.res.cancelled = 1
              /\ EmittedOne("CANCELLED", "None")
              /\ ~Listed(last.res.tasks, last.res.sel)
        /\ PastDeadline => ~InTrace("RUNNING") /\ ~last.res.stepped

\* C3 amended: the selected task is moved to CANCELLED, with tasks_cancelled
\* incremented by one and one send of its CANCELLED result attempted, exactly
\* when its deadline is set and strictly past; it is then neither RUNNING nor
\* stepped; when the send succeeds the result is on the queue and the task is
\* removed, when it fails the call raises IPCError and nothing is emitted.
C3_CancelledIffPastDeadline ==
    IsRun /\ Selected =>
        /\ PastDeadline <=> InTrace("CANCELLED")
        /\ last.res.cancelled = (IF PastDeadline THEN 1 ELSE 0)
        /\ PastDeadline =>
              /\ last.res.trace = <<"CANCELLED">>
              /\ ~last.res.stepped
              /\ last.res.sends = 1
              /\ last.res.raised \in {"None", "IPCError"}
              /\ last.res.raised = "None" =>
                    /\ EmittedOne("CANCELLED", "None")
                    /\ ~Listed(last.res.tasks, last.res.sel)
              /\ last.res.raised = "IPCError" => last.res.out = <<>>
        /\ ~PastDeadline =>
              \A k \in 1..Len(last.res.out) : last.res.out[k].payload.state # "CANCELLED"

\* a call that cancelled a task past its deadline and sent the result
C3_Witness ==
    /\ IsRun /\ Selected /\ PastDeadline
    /\ last.res.raised = "None"
    /\ Len(last.res.out) = 1

\* C4: run_once selects, among the PENDING and WAITING tasks, one of highest
\* priority and, among those, of earliest created_at; no other task is
\* changed, removed or reported by the call.
C4_SelectsHighestPriorityEarliest ==
    IsRun =>
        LET ready == {k \in 1..Len(last.pre) :
                          last.pre[k].state \in {"PENDING", "WAITING"}}
        IN /\ ready = {} <=> ~Selected
           /\ Selected =>
                 /\ SelTask.state \in {"PENDING", "WAITING"}
                 /\ \A k \in ready :
                       \/ last.pre[k].priority < SelTask.priority
                       \/ /\ last.pre[k].priority = SelTask.priority
                          /\ last.pre[k].created_at >= SelTask.created_at
           /\ Others(last.res.tasks) = Others(last.pre)
           /\ \A k \in 1..Len(last.res.out) : last.res.out[k].payload.id = last.res.sel

\* a call that found two eligible tasks and passed over the first of the list
C4_Witness ==
    /\ IsRun /\ Selected
    /\ Len(ReadyTasks(last.pre)) >= 2
    /\ last.pre[1].state \in {"PENDING", "WAITING"}
    /\ last.pre[1].id # last.res.sel

\* C5: every state change the scheduler makes to a task is one of the legal
\* transitions; CANCELLED is entered only from PENDING.
C5_OnlyLegalTransitions ==
    IsRun /\ Selected =>
        Steps(<<SelTask.state>> \o last.res.trace) \subseteq LegalTransitions

\* C6: once the scheduler has set a task's state to DONE, FAILED or CANCELLED,
\* no scheduler action changes it again, neither later in the same call nor
\* in a later call.
C6_TerminalStatesAreFinal ==
    IsRun =>
        /\ Selected =>
              \A p \in Steps(<<SelTask.state>> \o last.res.trace) :
                  p[1] \in Terminal => p[2] = p[1]
        /\ \A k \in 1..Len(last.pre) :
              last.pre[k].state \in Terminal =>
                  \E j \in 1..Len(last.res.tasks) : last.res.tasks[j] = last.pre[k]

\* C7: every TASK_RESULT the scheduler emits carries DONE, FAILED or CANCELLED,
\* the state the task has when it is sent, and the id and owner of the task
\* the call selected.
C7_ResultIsTerminalAndOfItsTask ==
    /\ \A k \in 1..Len(emitted) : emitted[k].state \in Terminal
    /\ IsRun =>
          \A k \in 1..Len(last.res.out) :
              /\ Selected
              /\ last.res.out[k].type = "TASK_RESULT"
              /\ last.res.out[k].payload.id = SelTask.id
              /\ last.res.out[k].payload.owner = SelTask.owner
              /\ last.res.out[k].payload.state \in Terminal
              /\ last.res.out[k].payload.state = last.res.trace[Len(last.res.trace)]

\* a call that cancelled a task of the non-default owner and sent its result
C7_Witness ==
    /\ IsRun /\ Selected
    /\ Len(last.res.out) = 1
    /\ SelTask.owner = "tenant"
    /\ last.res.out[1].payload.state = "CANCELLED"

\* C8: after run_once returns, no task in the task list is DONE, FAILED or
\* CANCELLED.
C8_NoTerminalTaskListed ==
    IsRun /\ last.res.raised = "None" =>
        \A k \in 1..Len(last.res.tasks) : last.res.tasks[k].state \notin Terminal

\* C9 as stated: when execute_step raises, run_once returns normally with the
\* task FAILED, last_error the exception's message, tasks_failed incremented
\* by one, one FAILED result emitted and the task removed, the other tasks
\* left as they were for later calls.
C9_StepFailureAlwaysReported ==
    IsRun /\ last.hook = "raise" =>
        /\ last.res.raised = "None"
        /\ last.res.trace = <<"RUNNING", "FAILED">>
        /\ last.res.failed = 1
        /\ EmittedOne("FAILED", "simulated failure")
        /\ ~Listed(last.res.tasks, last.res.sel)
        /\ Others(last.res.tasks) = Others(last.pre)

\* C9 amended: when execute_step raises, the task is set FAILED with
\* last_error the exception's message, tasks_failed is incremented by one and
\* one send of the FAILED result is attempted; when the send succeeds
\* run_once returns normally with the result emitted and the task removed,
\* when it fails run_once raises IPCError and nothing is emitted. Either way
\* the other tasks are untouched and a later run_once selects among them.
C9_StepFailureBecomesFailed ==
    IsRun /\ last.hook = "raise" =>
        /\ last.res.trace = <<"RUNNING", "FAILED">>
        /\ last.res.failed = 1 /\ last.res.completed = 0 /\ last.res.cancelled = 0
        /\ last.res.sends = 1
        /\ last.res.raised \in {"None", "IPCError"}
        /\ last.res.raised = "None" =>
              /\ EmittedOne("FAILED", "simulated failure")
              /\ ~Listed(last.res.tasks, last.res.sel)
        /\ last.res.raised = "IPCError" =>
              /\ last.res.out = <<>>
              /\ \A k \in 1..Len(last.res.tasks) :
                    last.res.tasks[k].id = last.res.sel =>
                        last.res.tasks[k].last_error = "simulated failure"
        /\ Others(last.res.tasks) = Others(last.pre)
        /\ ReadyTasks(Others(last.pre)) # <<>> =>
              \A in \in RunInputs :
                  LET again == RunOnce(last.res.tasks, last.now, in[1], in[2], in[3])
                  IN again.sel # 0 /\ again.sel # last.res.sel

\* a call in which the step raised, the result was sent, and an eligible
\* task is left for the next call
C9_Witness ==
    /\ IsRun /\ last.hook = "raise"
    /\ last.res.raised = "None"
    /\ ReadyTasks(last.res.tasks) # <<>>

\* C10: a failing send of a result leaves run_once as IPCError on every path;
\* it is never swallowed and never turned into a FAILED outcome of the task.
C10_SendFailurePropagates ==
    IsRun /\ last.res.sends > Len(last.res.out) =>
        /\ last.res.raised = "IPCError"
        /\ last.res.failed = 1 => last.hook = "raise"
        /\ InTrace("FAILED") => last.hook = "raise"

\* the last state the call assigned to the selected task is terminal
EndedTerminal ==
    /\ last.res.trace # <<>>
    /\ last.res.trace[Len(last.res.trace)] \in Terminal

\* the regions of a pool that this task owns
RegionsOf(pool, task_id) ==
    {r \in DOMAIN pool.regions : pool.regions[r].owner_task_id = task_id}

\* C11: when run_once has moved a task to DONE, FAILED or CANCELLED and has
\* returned, no region of the scheduler's pool is owned by that task.
C11_TerminalTaskOwnsNoRegion ==
    IsRun /\ Selected /\ last.res.raised = "None" /\ EndedTerminal =>
        RegionsOf(memory, last.res.sel) = {}

\* the sum of the sizes of the regions of a pool whose ids are in ids
RECURSIVE SumSizes(_, _)
SumSizes(pool, ids) ==
    IF ids = {} THEN 0
    ELSE LET r == CHOOSE x \in ids : TRUE
         IN pool.regions[r].size + SumSizes(pool, ids \ {r})

\* the most recent pool call raised
PoolCallFailed == lastp.raised = "MemoryErrorLogical"

\* C12: after any sequence of alloc, free, read and write calls, successful or
\* failing, used_bytes is the sum of the sizes of the regions in the pool and
\* lies between 0 and max_bytes, and each id names one region: the region kept
\* under an id carries that id, with a buffer of its size.
C12_UsedBytesIsSumOfSizes ==
    /\ memory.used_bytes = SumSizes(memory, DOMAIN memory.regions)
    /\ 0 <= memory.used_bytes /\ memory.used_bytes <= memory.max_bytes
    /\ DOMAIN memory.storage = DOMAIN memory.regions
    /\ \A r \in DOMAIN memory.regions :
          /\ memory.regions[r].id = r
          /\ memory.regions[r].size > 0
          /\ Len(memory.storage[r]) = memory.regions[r].size

\* a region was freed from a full pool, beside another one that stays
C12_Witness ==
    /\ lastp.op = "free" /\ ~PoolCallFailed
    /\ lastp.pre.used_bytes = lastp.pre.max_bytes
    /\ Cardinality(DOMAIN memory.regions) = 1
    /\ memory.used_bytes > 0

\* C13: alloc(region_id, owner, size) raises MemoryErrorLogical exactly when
\* size <= 0, or used_bytes + size > max_bytes, or region_id is already in the
\* pool, so an allocation that fills the pool exactly succeeds; a failed alloc
\* leaves used_bytes, the regions and all contents as they were.
C13_AllocFailsExactlyWhen ==
    lastp.op = "alloc" =>
        /\ PoolCallFailed <=>
              \/ lastp.n <= 0
              \/ lastp.pre.used_bytes + lastp.n > lastp.pre.max_bytes
              \/ lastp.region_id \in DOMAIN lastp.pre.regions
        /\ PoolCallFailed => memory = lastp.pre
        /\ ~PoolCallFailed =>
              /\ memory.used_bytes = lastp.pre.used_bytes + lastp.n
              /\ DOMAIN memory.regions = DOMAIN lastp.pre.regions \cup {lastp.region_id}
              /\ lastp.ret = memory.regions[lastp.region_id]
              /\ lastp.ret.owner_task_id = lastp.requester /\ lastp.ret.size = lastp.n

\* an alloc beside an existing region brought used_bytes to exactly max_bytes
C13_Witness ==
    /\ lastp.op = "alloc" /\ ~PoolCallFailed
    /\ lastp.pre.used_bytes > 0
    /\ memory.used_bytes = memory.max_bytes

\* the regions other than the one the call named, and their contents, are as
\* they were before the call
OtherRegionsUntouched ==
    \A r \in DOMAIN lastp.pre.regions \ {lastp.region_id} :
        /\ r \in DOMAIN memory.regions
        /\ memory.regions[r] = lastp.pre.regions[r]
        /\ memory.storage[r] = lastp.pre.storage[r]

\* C14: free(region_id, requester) raises MemoryErrorLogical when the region is
\* unknown or the requester is not its owner, and the pool is then unchanged;
\* when it succeeds exactly that region is gone, used_bytes is lower by that
\* region's size, and every other region is untouched.
C14_FreeRemovesExactlyTheRegion ==
    lastp.op = "free" =>
        /\ lastp.region_id \notin DOMAIN lastp.pre.regions => PoolCallFailed
        /\ /\ lastp.region_id \in DOMAIN lastp.pre.regions
           /\ lastp.pre.regions[lastp.region_id].owner_task_id # lastp.requester
           => PoolCallFailed
        /\ PoolCallFailed => memory = lastp.pre
        /\ ~PoolCallFailed =>
              /\ DOMAIN memory.regions = DOMAIN lastp.pre.regions \ {lastp.region_id}
              /\ DOMAIN memory.storage = DOMAIN lastp.pre.storage \ {lastp.region_id}
              /\ lastp.region_id \in DOMAIN lastp.pre.regions
              /\ memory.used_bytes =
                    lastp.pre.used_bytes - lastp.pre.regions[lastp.region_id].size
              /\ memory.max_bytes = lastp.pre.max_bytes
              /\ OtherRegionsUntouched

\* a free by someone who is not the owner failed, beside another region
C14_Witness ==
    /\ lastp.op = "free" /\ PoolCallFailed
    /\ lastp.region_id \in DOMAIN lastp.pre.regions
    /\ Cardinality(DOMAIN memory.regions) = 2

\* the region the call named, as it was before the call
PreRegion == lastp.pre.regions[lastp.region_id]

\* the call named a region that was in the pool
PreKnown == lastp.region_id \in DOMAIN lastp.pre.regions

\* C15: write raises MemoryErrorLogical when the region is unknown, is
\* read-only, is owned by another task than the requester, or the range
\* offset..offset+len(data) is not inside the region; a failed write leaves
\* the contents of every region and used_bytes unchanged.
C15_WriteFailsAndLeavesPool ==
    lastp.op = "write" =>
        /\ ~PreKnown => PoolCallFailed
        /\ PreKnown /\ PreRegion.read_only => PoolCallFailed
        /\ PreKnown /\ PreRegion.owner_task_id # lastp.requester => PoolCallFailed
        /\ /\ PreKnown
           /\ lastp.offset < 0 \/ lastp.offset + Len(lastp.data) > PreRegion.size
           => PoolCallFailed
        /\ PoolCallFailed => memory = lastp.pre

\* the owner's write, within bounds, was refused by a read-only region
C15_Witness ==
    /\ lastp.op = "write" /\ PoolCallFailed
    /\ PreKnown /\ PreRegion.read_only
    /\ PreRegion.owner_task_id = lastp.requester
    /\ lastp.offset >= 0 /\ lastp.data # <<>>
    /\ lastp.offset + Len(lastp.data) <= PreRegion.size

\* C16: read(region_id, offset, length) takes no requester; it raises
\* MemoryErrorLogical exactly when the region is unknown or offset < 0 or
\* length < 0 or offset + length > region.size; otherwise it returns the
\* length bytes that start at offset, which for length 0 is the empty string
\* at every offset from 0 to region.size; it never changes the pool.
C16_ReadFailsExactlyWhen ==
    lastp.op = "read" =>
        /\ PoolCallFailed <=>
              \/ ~PreKnown
              \/ lastp.offset < 0
              \/ lastp.n < 0
              \/ lastp.offset + lastp.n > PreRegion.size
        /\ memory = lastp.pre
        /\ ~PoolCallFailed =>
              /\ Len(lastp.ret) = lastp.n
              /\ \A k \in 1..lastp.n :
                    lastp.ret[k] = lastp.pre.storage[lastp.region_id][lastp.offset + k]
        /\ /\ PreKnown /\ lastp.n = 0
           /\ 0 <= lastp.offset /\ lastp.offset <= PreRegion.size
           => ~PoolCallFailed /\ lastp.ret = <<>>

\* a read of length 0 at the very end of a region returned the empty string
C16_Witness ==
    /\ lastp.op = "read" /\ ~PoolCallFailed
    /\ lastp.n = 0 /\ lastp.offset = PreRegion.size
    /\ lastp.ret = <<>>

\* C17: after a successful write(offset, data) by the owner,
\* read(offset, len(data)) returns data, and the write has changed only the
\* bytes of that range of that region: the bytes outside the range, the
\* region descriptors, the other regions and used_bytes are as before.
C17_WriteThenReadReturnsData ==
    lastp.op = "write" /\ ~PoolCallFailed =>
        /\ PreKnown /\ PreRegion.owner_task_id = lastp.requester
        /\ \E r \in {Read(memory, lastp.region_id, lastp.offset, Len(lastp.data))} :
              r.raised = "None" /\ r.ret = lastp.data /\ r.pool = memory
        /\ Len(memory.storage[lastp.region_id]) = PreRegion.size
        /\ \A k \in 1..PreRegion.size :
              k <= lastp.offset \/ k > lastp.offset + Len(lastp.data) =>
                  memory.storage[lastp.region_id][k] =
                      lastp.pre.storage[lastp.region_id][k]
        /\ memory.regions = lastp.pre.regions
        /\ memory.used_bytes = lastp.pre.used_bytes
        /\ DOMAIN memory.storage = DOMAIN lastp.pre.storage
        /\ OtherRegionsUntouched

\* a byte was written behind a byte written earlier, which stays
C17_Witness ==
    /\ lastp.op = "write" /\ ~PoolCallFailed
    /\ lastp.offset = 1 /\ lastp.data = <<1>>
    /\ lastp.pre.storage[lastp.region_id] = <<1, 0>>
    /\ memory.storage[lastp.region_id] = <<1, 1>>

\* C18: after enqueue_from_payload returns and after every run_once returns,
\* the worker_queue_depth gauge of the scheduler's process equals the length
\* of the scheduler's task list.
C18_QueueDepthIsListLength ==
    last.op \in {"enqueue", "run_once"} /\ last.res.raised = "None" =>
        metrics[last.w].worker_queue_depth = Len(tasks[last.w])

\* a run_once that found nothing eligible in a list that is not empty, and so
\* returned without setting the gauge
C18_Witness ==
    /\ IsRun /\ ~Selected /\ ~last.res.gauge
    /\ Len(tasks[last.w]) > 0
    /\ metrics[last.w].worker_queue_depth = Len(tasks[last.w])

\* no task of the list the call began on was PENDING or WAITING
NothingEligible ==
    \A k \in 1..Len(last.pre) : last.pre[k].state \notin {"PENDING", "WAITING"}

\* C19: when no task is PENDING or WAITING, the empty list included, run_once
\* returns having done nothing: no send, no result, no state assigned, the
\* task list and the memory pool as they were, no counter incremented; a
\* second call, whatever the hook and the queue would do, does the same.
C19_NothingEligibleIsNoOp ==
    IsRun /\ NothingEligible =>
        /\ last.res.raised = "None"
        /\ ~Selected /\ ~last.res.stepped /\ last.res.trace = <<>>
        /\ last.res.sends = 0 /\ last.res.out = <<>>
        /\ last.res.tasks = last.pre /\ tasks[last.w] = last.pre
        /\ last.res.completed = 0 /\ last.res.failed = 0 /\ last.res.cancelled = 0
        /\ memory = lastp.pre
        /\ \A in \in RunInputs :
              RunOnce(tasks[last.w], last.now, in[1], in[2], in[3]) = last.res

\* a call that found only a task left FAILED by a failed send, with a region
\* in the pool
C19_Witness ==
    /\ IsRun /\ NothingEligible
    /\ last.pre # <<>>
    /\ memory.used_bytes > 0
    /\ lastp.op = "run_once"

\* C20: with the default step hook and completion predicate, a run_once that
\* selects a task whose deadline has not passed and returns has finished it in
\* that call: the task ends DONE, exactly one result, a DONE one, is emitted,
\* tasks_completed grows by one and the task is no longer in the task list.
C20_DefaultStepCompletesTask ==
    /\ IsRun /\ Selected /\ ~PastDeadline /\ last.hook = "complete"
    /\ last.res.raised = "None"
    =>
        /\ last.res.trace[Len(last.res.trace)] = "DONE"
        /\ EmittedOne("DONE", "None")
        /\ last.res.completed = 1
        /\ ~Listed(last.res.tasks, last.res.sel)

\* ------------------------------------------------------------------------
\* Properties of the supervisor, the queues and the metrics
\* ------------------------------------------------------------------------
\* the number of TASK_SUBMIT messages of submission n on the task queue
InTaskQueue(n) ==
    Cardinality({k \in 1..Len(task_queue) :
                    /\ task_queue[k].type = "TASK_SUBMIT"
                    /\ task_queue[k].payload.n = n})

\* the worker processes whose scheduler lists the task of submission n
Holders(n) == {w \in Workers : Listed(tasks[w], n)}

\* the number of entries of a task list with this id
Copies(ts, n) == Cardinality({k \in 1..Len(ts) : ts[k].id = n})

\* a TASK_RESULT of submission n was put on the result queue
Reported(n) == \E k \in 1..Len(emitted) : emitted[k].id = n

\* C21: each submitted task is held by exactly one worker's scheduler between
\* its enqueue and its result emission. A submission is on the task queue at
\* most once, and never while a scheduler lists it; no two schedulers list the
\* same submission and none lists it twice; and while no worker process has
\* been stopped, a submission that has left the queue and has no result yet
\* is listed by exactly one scheduler.
C21_HeldByExactlyOneWorker ==
    \A n \in 1..(next_id - 1) :
       /\ InTaskQueue(n) + Cardinality(Holders(n)) <= 1
       /\ \A w \in Workers : Copies(tasks[w], n) <= 1
       /\ (stops = 0 /\ InTaskQueue(n) = 0 /\ ~Reported(n))
             => Cardinality(Holders(n)) = 1

\* C21 witness: one worker holds the parked task of submission 1 while
\* another live worker has just run its own scheduler
C21_Witness ==
    \E w \in Workers, v \in Workers :
       /\ v # w
       /\ proc[w] = "alive" /\ proc[v] = "alive"
       /\ Listed(tasks[w], 1)
       /\ last.op = "run_once" /\ last.w = v

\* C22: start() on a supervisor that is already started fails with an
\* "already started" error and changes nothing: it raises exactly when it
\* finds the supervisor started, and then the supervisor is still started
\* with the worker list it had, one process per configured worker.
C22_StartAgainFailsAndChangesNothing ==
    lasts.op = "start" =>
       /\ lasts.raised = IF lasts.pre.started THEN "RuntimeError: already started"
                         ELSE "None"
       /\ lasts.pre.started =>
             /\ started
             /\ workers = lasts.pre.workers
             /\ Cardinality(workers) = NumWorkers
             /\ sup_submitted = lasts.pre.sup_submitted

\* C22 witness: start() was called on a started supervisor and raised
C22_Witness ==
    /\ lasts.op = "start"
    /\ lasts.pre.started
    /\ lasts.raised = "RuntimeError: already started"
    /\ started

\* C23: submit_task on a supervisor that is not running fails with a "not
\* started" error and puts nothing on the task queue; on a started supervisor
\* a send that fails with IPCError reaches the caller, and tasks_submitted is
\* incremented only when the send succeeded, so it counts the submissions
\* that were put on the task queue.
C23_SubmitFailsOrCounts ==
    /\ sup_submitted = next_id - 1
    /\ lasts.op = "submit_task" =>
          /\ (lasts.raised = "RuntimeError: not started") <=> ~lasts.pre.started
          /\ lasts.pre.started => lasts.raised \in {"None", "IPCError"}
          /\ ~lasts.pre.started =>
                /\ task_queue = lasts.pre.task_queue
                /\ sup_submitted = lasts.pre.sup_submitted
          /\ lasts.raised = "IPCError" => sup_submitted = lasts.pre.sup_submitted
          /\ lasts.raised = "None" => sup_submitted = lasts.pre.sup_submitted + 1

\* C23 witness: on a supervisor that was stopped after a successful
\* submission, submit_task raised "not started"
C23_Witness ==
    /\ lasts.op = "submit_task"
    /\ lasts.raised = "RuntimeError: not started"
    /\ stops > 0
    /\ sup_submitted = 1

\* C23 witness of the failing send: submit_task raised IPCError on a started
\* supervisor and the counter stayed where it was
C23_WitnessIPCError ==
    /\ lasts.op = "submit_task"
    /\ lasts.raised = "IPCError"
    /\ started
    /\ sup_submitted = lasts.pre.sup_submitted

\* C24: after stop() has returned on a started supervisor the worker list is
\* empty, started is false and no worker process is alive; stop() on a
\* supervisor that is not started sends nothing and changes nothing.
C24_StopLeavesNoWorker ==
    (lasts.op = "stop" /\ lasts.raised = "None") =>
       IF lasts.pre.started
       THEN /\ workers = {}
            /\ ~started
            /\ \A w \in Workers : proc[w] # "alive"
       ELSE /\ ~started
            /\ workers = lasts.pre.workers
            /\ task_queue = lasts.pre.task_queue
            /\ sup_submitted = lasts.pre.sup_submitted

\* C24 witness: stop() has returned on a started supervisor of which one
\* worker had exited on its shutdown message and another had to be terminated
C24_Witness ==
    /\ lasts.op = "stop" /\ lasts.raised = "None" /\ lasts.pre.started
    /\ \E w \in Workers : proc[w] = "exited"
    /\ \E w \in Workers : proc[w] = "terminated"

\* C24 witness of the no-op: stop() has returned on a supervisor that was
\* not started, after an earlier stop
C24_WitnessNotStarted ==
    /\ lasts.op = "stop" /\ lasts.raised = "None" /\ ~lasts.pre.started
    /\ stops > 0

\* C25: used in a with statement, the supervisor is started on entry and
\* stop() is invoked on exit on every path: inside the body it is started,
\* and once the block has been left, normally or by an exception, the last
\* Supervisor call is a stop() that has returned, the supervisor is not
\* started and none of its worker processes is alive.
C25_WithAlwaysStops ==
    /\ with_pc = "body" => started /\ workers = Workers
    /\ with_pc \in {"exiting", "exiting on exception"} =>
          lasts.op = "stop" /\ lasts.raised = "pending"
    /\ with_pc \in {"left", "left on exception"} =>
          /\ lasts.op = "stop" /\ lasts.raised = "None"
          /\ ~started
          /\ workers = {}
          /\ \A w \in Workers : proc[w] # "alive"

\* C25 witness: the body submitted a task and raised, and the block has been
\* left with the supervisor stopped
C25_Witness ==
    /\ with_pc = "left on exception"
    /\ sup_submitted = 1
    /\ ~started
    /\ lasts.op = "stop"

\* the payloads of the TASK_RESULT messages of a sequence, in its order
RECURSIVE ResultPayloads(_)
ResultPayloads(msgs) ==
    IF msgs = <<>> THEN <<>>
    ELSE IF Head(msgs).type = "TASK_RESULT"
    THEN <<Head(msgs).payload>> \o ResultPayloads(Tail(msgs))
    ELSE ResultPayloads(Tail(msgs))

\* the number of messages a collect_results call should take from a queue of
\* len items: up to max_results, fewer if the queue runs empty or recv meets
\* a fault at turn faultAt
TakenCount(len, max_results, faultAt) ==
    Min(Min(len, max_results), IF faultAt > 0 THEN faultAt - 1 ELSE max_results)

\* C26: collect_results(timeout, max_results) returns at most max_results
\* payloads, exactly those of the TASK_RESULT messages it dequeued, in the
\* order it dequeued them; it dequeues from the front of the queue, stops at
\* the first recv IPCError without raising, leaves the later messages in the
\* queue, and returns an empty list when the queue is empty.
C26_CollectReturnsResultPayloads ==
    lasti.op = "collect_results" =>
       /\ lasti.raised = "None"
       /\ Len(lasti.ret) <= lasti.n
       /\ lasti.ret = ResultPayloads(lasti.taken)
       /\ Len(lasti.taken) = TakenCount(Len(lasti.pre.items), lasti.n, lasti.msg)
       /\ \A k \in 1..Len(lasti.taken) : lasti.taken[k] = Loads(lasti.pre.items[k])
       /\ queue.items = SubSeq(lasti.pre.items, Len(lasti.taken) + 1,
                               Len(lasti.pre.items))
       /\ lasti.pre.items = <<>> => lasti.ret = <<>>

\* C26 witness: a call dequeued a TASK_RESULT and a message of another type
\* and returned the one payload
C26_Witness ==
    /\ lasti.op = "collect_results"
    /\ Len(lasti.taken) = 2
    /\ Len(lasti.ret) = 1

\* C26 witness of the early stop: recv met a fault at the second turn, one
\* payload was returned and a message was left on the queue
C26_WitnessStopsEarly ==
    /\ lasti.op = "collect_results"
    /\ lasti.msg = 2 /\ lasti.n > 2
    /\ Len(lasti.ret) = 1
    /\ queue.items # <<>>

\* C27: a message put on a queue with send and later taken with recv has the
\* same type and payload, whatever its MessageType, and messages are received
\* in the order in which they were sent, none lost and none duplicated: the
\* messages received so far are the first of the messages sent, in that
\* order, and the queue holds the rest, in that order.
C27_ReceivedAsSentInOrder ==
    /\ Len(recv_log) + Len(queue.items) = Len(sent_log)
    /\ \A k \in 1..Len(recv_log) : recv_log[k] = sent_log[k]
    /\ \A k \in 1..Len(queue.items) :
          queue.items[k] = Dumps(sent_log[Len(recv_log) + k])
    /\ (lasti.op = "recv" /\ lasti.raised = "None") =>
          /\ lasti.ret = sent_log[Len(recv_log)]
          /\ lasti.ret.type \in MessageType

\* C27 witness: recv took the older of two different messages that were on
\* the queue, and returned it as it was sent
C27_Witness ==
    /\ lasti.op = "recv" /\ lasti.raised = "None"
    /\ Len(lasti.pre.items) = 2
    /\ lasti.pre.items[1] # lasti.pre.items[2]
    /\ lasti.ret = sent_log[Len(recv_log)]
    /\ Len(queue.items) = 1

\* C28: send on a bounded queue that stays full for the whole timeout fails
\* with IPCError and leaves the queue as it was; recv with a finite timeout
\* on a queue that stays empty fails with IPCError and leaves the queue as it
\* was. A send that returns has appended its message, and the queue never
\* holds more than its bound.
C28_FullAndEmptyQueueFail ==
    /\ Len(queue.items) <= queue.maxsize
    /\ lasti.op = "send" =>
          /\ Full(lasti.pre) => lasti.raised = "IPCError"
          /\ lasti.raised = "IPCError" => queue = lasti.pre
          /\ lasti.raised = "None" =>
                queue.items = Append(lasti.pre.items, Dumps(lasti.msg))
    /\ lasti.op = "recv" =>
          /\ lasti.pre.items = <<>> => lasti.raised = "IPCError"
          /\ lasti.raised = "IPCError" => queue = lasti.pre
          /\ lasti.raised = "None" => queue.items = Tail(lasti.pre.items)

\* C28 witness: send met a full queue and nothing else went wrong; it raised
\* IPCError and the queue holds what it held
C28_Witness ==
    /\ lasti.op = "send"
    /\ Full(lasti.pre) /\ ~lasti.fault
    /\ lasti.raised = "IPCError"
    /\ queue = lasti.pre
    /\ Len(queue.items) = MaxQueue

\* C28 witness of the empty queue: recv met an empty queue after messages
\* had been sent and received, and raised IPCError
C28_WitnessEmpty ==
    /\ lasti.op = "recv"
    /\ lasti.pre.items = <<>> /\ ~lasti.fault
    /\ lasti.raised = "IPCError"
    /\ queue.items = <<>>
    /\ recv_log # <<>>

\* no update was lost: each metric holds what its updates give when they are
\* applied one after the other, in the order in which they were stored
NoLostUpdate ==
    /\ counter_m.value = applied.counter
    /\ gauge_m.value = applied.gauge

SelNow == tasks[last.w][IndexOf(tasks[last.w], last.res.sel)]

\* C30: if the step hook returns normally and the completion predicate is
\* false, the task stays in the task list in state RUNNING, no result is
\* emitted for it, and it remains selectable: it is among the tasks from which
\* the next run_once selects.
C30_UnfinishedTaskStaysSelectable ==
    (IsRun /\ last.hook = "unfinished") =>
       /\ Listed(tasks[last.w], last.res.sel)
       /\ SelNow.state = "RUNNING"
       /\ last.res.out = <<>>
       /\ Listed(ReadyTasks(tasks[last.w]), last.res.sel)

\* ------------------------------------------------------------------------
\* Properties of the worker loop, the counters and shutdown
\* ------------------------------------------------------------------------
\* C36: when several eligible tasks share the highest priority and the same
\* created_at, run_once selects the one enqueued first: no eligible task with
\* the priority and created_at of the selected task stands before it in the
\* task list.
C36_TieGoesToFirstEnqueued ==
    (IsRun /\ Selected) =>
       \A k \in 1..Len(last.pre) :
          (/\ last.pre[k].state \in {"PENDING", "WAITING"}
           /\ last.pre[k].priority = SelTask.priority
           /\ last.pre[k].created_at = SelTask.created_at)
             => k >= IndexOf(last.pre, last.res.sel)

\* C36 witness: two eligible tasks with the same priority and created_at were
\* listed, and the call selected the first of them
C36_Witness ==
    /\ IsRun /\ Selected
    /\ Len(last.pre) = 2
    /\ \A k \in 1..2 : last.pre[k].state \in {"PENDING", "WAITING"}
    /\ last.pre[1].priority = last.pre[2].priority
    /\ last.pre[1].created_at = last.pre[2].created_at
    /\ last.res.sel = last.pre[1].id

\* the sum of the three outcome counters of a registry
OutcomeCount(m) == m.tasks_completed + m.tasks_failed + m.tasks_cancelled

\* the counter that stands for a terminal state
CounterOf(st) ==
    IF st = "DONE" THEN "completed" ELSE IF st = "FAILED" THEN "failed" ELSE "cancelled"

\* C35: at every point between run_once calls, tasks_completed + tasks_failed
\* + tasks_cancelled of the scheduler's process equals the number of
\* TASK_RESULT messages it has emitted, and a call that returns has
\* incremented, for the task it reports, exactly one of the three counters,
\* the one matching the state in the emitted result.
C35_CountersMatchEmittedResults ==
    (IsRun /\ last.res.raised = "None") =>
       /\ OutcomeCount(metrics[last.w]) = Len(emitted)
       /\ last.res.completed + last.res.failed + last.res.cancelled = Len(last.res.out)
       /\ \A k \in 1..Len(last.res.out) :
             last.res[CounterOf(last.res.out[k].payload.state)] = 1

\* C34: after each step, whether the task ended DONE, FAILED or unfinished,
\* scheduler_quantum_overruns is incremented by one exactly when the elapsed
\* milliseconds are strictly greater than quantum_ms, and by nothing when no
\* task was stepped; the elapsed time never changes what the call does: its
\* outcome is that of run_once on the same list with the same hook and sends.
C34_OverrunCountedExactlyWhenOver ==
    IsRun =>
       /\ overruns = lastq.pre +
             (IF last.res.stepped /\ lastq.elapsed_ms > QuantumMs THEN 1 ELSE 0)
       /\ \E in \in QuantumInputs :
             last.res = RunOnce(last.pre, last.now, in[1], in[2], in[3])
       /\ last.res.stepped =>
             /\ last.hook = "complete" =>
                   last.res.trace[2] = "DONE"
             /\ last.hook = "raise" =>
                   last.res.trace[Len(last.res.trace)] = "FAILED"
             /\ last.hook = "unfinished" => last.res.trace = <<"RUNNING">>

\* C34 witness: a step that raised took longer than quantum_ms after an
\* earlier overrun; the task was reported FAILED and the counter stands at 2
C34_Witness ==
    /\ IsRun /\ last.hook = "raise"
    /\ lastq.elapsed_ms > QuantumMs
    /\ lastq.pre = 1 /\ overruns = 2
    /\ Len(last.res.out) = 1
    /\ last.res.out[1].payload.state = "FAILED"

\* C34 witness of the boundary: a step that completed its task took exactly
\* quantum_ms and the counter stayed where it was
C34_WitnessAtQuantum ==
    /\ IsRun /\ last.hook = "complete"
    /\ lastq.elapsed_ms = QuantumMs
    /\ overruns = lastq.pre

\* the number of CONTROL shutdown messages on the task queue
ShutdownsQueued ==
    Cardinality({k \in 1..Len(task_queue) : task_queue[k] = ShutdownMessage})

\* C37: after stop() has returned, the task queue, which the supervisor
\* creates once and uses again after the next start(), holds no CONTROL
\* shutdown message. Stated for the stops in which every worker had ended by
\* itself, none being terminated.
C37_NoShutdownLeftAfterStop ==
    (/\ lasts.op = "stop" /\ lasts.raised = "None" /\ lasts.pre.started
     /\ \A w \in Workers : proc[w] # "terminated")
       => ShutdownsQueued = 0

\* what recv gave in the most recent turn of a worker loop: "timeout", or
\* the type of the message
GotType == IF lastw.got = <<>> THEN "timeout" ELSE lastw.got[1].type

\* C32: a worker leaves its loop only on receiving CONTROL with action
\* "shutdown" or on an exception escaping the loop. After a turn of worker w:
\* the process has exited exactly when the turn received a shutdown, it has
\* crashed exactly when the run_once of the turn raised, and it is alive
\* otherwise; a TASK_SUBMIT was enqueued and then run_once was called on the
\* longer list; a timeout and a message of another type called run_once on
\* the list as it was; a CONTROL left the scheduler unchanged.
C32_LoopEndsOnlyOnShutdownOrException ==
    lastw.w # 0 =>
       /\ proc[lastw.w] \in {"alive", "exited", "crashed"}
       /\ proc[lastw.w] = "exited" <=>
             (GotType = "CONTROL" /\ lastw.got[1].payload.action = "shutdown")
       /\ proc[lastw.w] = "crashed" <=>
             (GotType # "CONTROL" /\ last.res.raised # "None")
       /\ GotType = "TASK_SUBMIT" =>
             /\ IsRun /\ last.w = lastw.w
             /\ last.pre = Append(lastw.pre, last.pre[Len(last.pre)])
             /\ last.pre[Len(last.pre)].id = lastw.got[1].payload.n
             /\ metrics[lastw.w].tasks_submitted = lastw.prem.tasks_submitted + 1
       /\ GotType \in {"timeout", "WORKER_STATUS", "TASK_RESULT"} =>
             /\ IsRun /\ last.w = lastw.w
             /\ last.pre = lastw.pre
             /\ metrics[lastw.w].tasks_submitted = lastw.prem.tasks_submitted
       /\ GotType = "CONTROL" =>
             /\ tasks[lastw.w] = lastw.pre
             /\ metrics[lastw.w] = lastw.prem

\* C32 witness: a worker that had completed a task received a CONTROL with
\* another action than shutdown and is still in its loop
C32_Witness ==
    /\ lastw.w # 0
    /\ GotType = "CONTROL" /\ lastw.got[1].payload.action = "reload"
    /\ proc[lastw.w] = "alive"
    /\ lastw.prem.tasks_completed = 1

\* C32 witness of the unknown type: a worker received a WORKER_STATUS
\* message, called run_once and is still in its loop
C32_WitnessOtherType ==
    /\ lastw.w # 0
    /\ GotType = "WORKER_STATUS"
    /\ IsRun /\ last.w = lastw.w
    /\ proc[lastw.w] = "alive"

\* worker w holds the task of submission n in PENDING or WAITING
HoldsReady(w, n) ==
    /\ proc[w] = "alive"
    /\ \E k \in 1..Len(tasks[w]) :
          tasks[w][k].id = n /\ tasks[w][k].state \in {"PENDING", "WAITING"}

\* the task of submission n is in a terminal state, off every task list, and
\* its result was emitted
Finished(n) ==
    /\ \E k \in 1..Len(emitted) :
          emitted[k].id = n /\ emitted[k].state \in {"DONE", "FAILED", "CANCELLED"}
    /\ Holders(n) = {}

\* C31: a worker that holds a task in PENDING or WAITING keeps making
\* progress without new submissions: each recv timeout runs run_once, so a
\* parked task whose hook stops setting WAITING is eventually stepped to a
\* terminal state, removed, and its result emitted.
C31_ParkedTaskEventuallyFinished ==
    \A n \in 1..MaxSubmits :
       (\E w \in Workers : HoldsReady(w, n)) ~> Finished(n)

\* C31 witness: on an empty task queue a recv timeout made run_once step a
\* task that was WAITING, and the hook parked it again
C31_Witness ==
    /\ IsRun /\ Selected
    /\ task_queue = <<>>
    /\ SelTask.state = "WAITING"
    /\ last.hook = "wait"
    /\ HoldsReady(last.w, last.res.sel)

\* every worker process has left its loop on a shutdown message
AllExited == \A w \in Workers : proc[w] = "exited"

====
